---------------------------- MODULE Spec2Model ----------------------------
(***************************************************************************)
(* A model of the conversational product assistant:                        *)
(*   - the Order Processor (order_processor.py, data_models.py),           *)
(*   - the LLM Service Client's retry loop and response extraction         *)
(*     (sarvam_llm_service.py, llamaindex_agent.py),                       *)
(*   - the Chat Interface's interactive loop and network front-end        *)
(*     (chat_interface.py),                                                *)
(*   - the Agent Orchestrator (llamaindex_agent.py),                       *)
(*   - the RAG Engine's catalog copy and answers (rag_engine.py).          *)
(*                                                                         *)
(* Each component has its own specification (Spec, SpecRetry, SpecExtract, *)
(* SpecChat, ...); a component's specification leaves the other            *)
(* components' variables at their initial value.                           *)
(*                                                                         *)
(* Text is modelled as a sequence of one-character strings, so that        *)
(* lower(), upper() and strip() are computed.  An optional value (None or  *)
(* a value) is a sequence of length 0 or 1.                                *)
(***************************************************************************)
EXTENDS Integers, Sequences, FiniteSets, TLC

VARIABLES
    \* ---- Order Processor
    catalog_file,     \* the catalog JSON file: [status, products]
    products,         \* OrderProcessor.products: product_id -> Product
    ledger,           \* the rows of the orders CSV file after the header row
    result,           \* what the last Order Processor operation returned
    lastOp,           \* the last Order Processor operation that ran
    \* ---- LLM Service Client: _make_request_with_retry
    max_retries,      \* SarvamConfig.max_retries
    json_error_is_request_exception,
                      \* whether the installed HTTP library raises its own
                      \* RequestException subclass from response.json()
    attempt,          \* the loop variable of "for attempt in range(...)"
    last_exception,   \* the local last_exception (None = <<>>)
    responses,        \* what the server/network answered, attempt by attempt
    waits,            \* the seconds slept by _wait_with_backoff, in order
    log,              \* one entry per attempt or wait, in the order they happened
    outcome,          \* "running", or how the call ended
    \* ---- response extraction
    extractor,        \* which copy of _extract_content_from_response
    response_data,    \* its argument
    extracted,        \* what it returned or raised
    \* ---- Chat Interface: start_chat
    agent_ready,      \* self.agent is set and agent.is_ready()
    session_active,   \* ChatInterface.session_active
    chat_pc,          \* "constructed", "loop" or "returned"
    lines_read,       \* the raw lines input() returned ("EOF" for end of input)
    forwarded,        \* the texts passed to agent.chat, in order
    printed,          \* what the session printed, in order
    \* ---- Chat Interface: the network front-end
    api_served,       \* how many POST /respond requests have been served
    api_last,         \* the latest request served, with its response
    constructed,      \* how many ChatInterface objects the route constructed
    \* ---- Agent Orchestrator: LlamaIndexAgent.chat and its order tool
    agent_initialized,\* self.agent is set
    user_message,     \* the argument of chat
    scenario,         \* what the reasoning loop, the search and the LLM do
    agent_response,   \* the AgentResponse chat returned (or "pending")
    agent_calls,      \* the calls chat made to the RAG Engine and Order Processor
    tool_return,      \* what the process_order tool handed to the reasoning loop
    \* ---- a call under study
    call_args,        \* the arguments of the latest call, with its name (op)
    call_result,      \* what the latest call returned or raised
    \* ---- RAG Engine
    rag_products,     \* RAGEngine.products: the list of Product it loaded
    rag_status        \* "none", "ready" or the exception of the constructor

ordVars   == <<catalog_file, products, ledger, result, lastOp>>
retryVars == <<max_retries, json_error_is_request_exception, attempt,
               last_exception, responses, waits, log, outcome>>
extVars   == <<extractor, response_data, extracted>>
chatVars  == <<agent_ready, session_active, chat_pc, lines_read, forwarded,
               printed>>
apiVars   == <<api_served, api_last, constructed>>
agentVars == <<agent_initialized, user_message, scenario, agent_response,
               agent_calls, tool_return>>
callVars  == <<call_args, call_result>>
ragVars   == <<rag_products, rag_status>>
vars      == <<ordVars, retryVars, extVars, chatVars, apiVars, agentVars,
               callVars, ragVars>>

---------------------------------------------------------------------------
(* Bounds of the model *)

MaxStock == 2        \* largest stock_quantity in the catalog file
MaxLedger == 2       \* process_order is explored while the ledger is shorter
MaxRetryCfg == 3     \* largest configured max_retries
MaxContentLen == 3   \* longest content string of a response
MaxTurns == 3        \* lines read in one interactive session
MaxRequests == 2     \* POST /respond requests served
MaxApiOrders == 2    \* orders placed through the network front-end
MaxObserved == 1     \* orders placed by calls observed with their arguments
MaxQuantity == 11    \* largest quantity of a stored order written as a row
MaxProducts == 6     \* longest product list given to generate_response

---------------------------------------------------------------------------
(* Text *)

None == <<>>
Some(x) == <<x>>
IsSome(o) == Len(o) = 1

LowerLetters ==
    <<"a", "b", "c", "d", "e", "f", "g", "h", "i", "j", "k", "l", "m", "n",
      "o", "p", "q", "r", "s", "t", "u", "v", "w", "x", "y", "z">>
UpperLetters ==
    <<"A", "B", "C", "D", "E", "F", "G", "H", "I", "J", "K", "L", "M", "N",
      "O", "P", "Q", "R", "S", "T", "U", "V", "W", "X", "Y", "Z">>

\* str.lower(), character by character
LowerChar(c) ==
    IF \E i \in DOMAIN UpperLetters : UpperLetters[i] = c
    THEN LowerLetters[CHOOSE i \in DOMAIN UpperLetters : UpperLetters[i] = c]
    ELSE c
Lower(s) == [i \in DOMAIN s |-> LowerChar(s[i])]

\* str.upper(), character by character
UpperChar(c) ==
    IF \E i \in DOMAIN LowerLetters : LowerLetters[i] = c
    THEN UpperLetters[CHOOSE i \in DOMAIN LowerLetters : LowerLetters[i] = c]
    ELSE c
Upper(s) == [i \in DOMAIN s |-> UpperChar(s[i])]

Whitespace == {" ", "\t"}

\* str.strip(): drop the leading and the trailing whitespace
RECURSIVE LStrip(_)
LStrip(s) ==
    IF s # <<>> /\ Head(s) \in Whitespace THEN LStrip(Tail(s)) ELSE s
RECURSIVE RStrip(_)
RStrip(s) ==
    IF s # <<>> /\ s[Len(s)] \in Whitespace
    THEN RStrip(SubSeq(s, 1, Len(s) - 1)) ELSE s
Strip(s) == RStrip(LStrip(s))

\* s[:n]
Take(s, n) == SubSeq(s, 1, IF Len(s) < n THEN Len(s) ELSE n)

\* All sequences over S of length at most n
SeqsUpTo(S, n) == UNION {[1..k -> S] : k \in 0..n}

\* str(n) of a non-negative integer: its decimal digits
Digits == <<"0", "1", "2", "3", "4", "5", "6", "7", "8", "9">>
RECURSIVE IntStr(_)
IntStr(n) ==
    IF n < 10 THEN <<Digits[n + 1]>>
    ELSE Append(IntStr(n \div 10), Digits[(n % 10) + 1])

\* int(s) of a string of decimal digits
DigitValue(c) == CHOOSE d \in 0..9 : Digits[d + 1] = c
RECURSIVE StrInt(_)
StrInt(s) ==
    IF Len(s) = 1 THEN DigitValue(s[1])
    ELSE 10 * StrInt(SubSeq(s, 1, Len(s) - 1)) + DigitValue(s[Len(s)])

\* str(x) of a float with an integral non-negative value: "75.0"
FloatStr(n) == IntStr(n) \o <<".", "0">>

\* float(s) of a string "<digits>.0": the integral value it denotes
DotAt(s) == CHOOSE i \in 1..Len(s) : s[i] = "."
StrFloat(s) == StrInt(SubSeq(s, 1, DotAt(s) - 1))

---------------------------------------------------------------------------
(* Domain data model: data_models.py *)

is_in_stock_Positive(product, quantity) == product.stock_quantity > 0

is_in_stock_Strict(product, quantity) == product.stock_quantity > quantity

\* Product.is_in_stock
is_in_stock(product, quantity) == product.stock_quantity >= quantity

\* Order.__post_init__: None, or the reason of the ValueError it raises
OrderPostInit(order) ==
    IF order.product_id = ""
    THEN Some("Product ID must be a non-empty string")
    ELSE IF ~order.quantity_is_int \/ order.quantity <= 0
    THEN Some("Quantity must be a positive integer")
    ELSE IF order.delivery_address = ""
    THEN Some("Delivery address must be a non-empty string")
    ELSE None

\* StoredOrder.__post_init__: None, or the reason of the ValueError it raises
StoredOrderPostInit(so) ==
    IF so.order_id = "" THEN Some("Order ID must be a non-empty string")
    ELSE IF so.product_id = ""
    THEN Some("Product ID must be a non-empty string")
    ELSE IF so.product_name = <<>>
    THEN Some("Product name must be a non-empty string")
    ELSE IF so.quantity <= 0 THEN Some("Quantity must be a positive integer")
    ELSE IF so.delivery_address = ""
    THEN Some("Delivery address must be a non-empty string")
    ELSE IF so.total_price < 0
    THEN Some("Total price must be a non-negative number")
    ELSE None

\* datetime.now().strftime("%Y-%m-%d") during the run
Today == "2025-01-15"

from_order_UnitPrice(order, product, order_id) ==
    [order_id         |-> order_id,
     product_id       |-> order.product_id,
     product_name     |-> product.name,
     quantity         |-> order.quantity,
     delivery_address |-> order.delivery_address,
     order_date       |-> Today,
     total_price      |-> product.price]

\* StoredOrder.from_order, before __post_init__ validates it
\* ("order.product_name or product.name": None and "" are both falsy)
from_order(order, product, order_id) ==
    [order_id         |-> order_id,
     product_id       |-> order.product_id,
     product_name     |-> IF IsSome(order.product_name)
                             /\ order.product_name[1] # <<>>
                          THEN order.product_name[1] ELSE product.name,
     quantity         |-> order.quantity,
     delivery_address |-> order.delivery_address,
     order_date       |-> Today,
     total_price      |-> product.price * order.quantity]

to_csv_row_NameFirst(so) ==
    <<so.order_id, so.product_name, so.product_id, IntStr(so.quantity),
      so.delivery_address, so.order_date, FloatStr(so.total_price)>>

\* StoredOrder.to_csv_row
to_csv_row(so) ==
    <<so.order_id, so.product_id, so.product_name, IntStr(so.quantity),
      so.delivery_address, so.order_date, FloatStr(so.total_price)>>

\* What a call returned, or the exception it raised
RowReturned(v) == [status |-> "returned", value |-> <<v>>, error |-> ""]
RowRaised(e) == [status |-> "raised", value |-> <<>>, error |-> e]

\* StoredOrder.from_csv_row: the StoredOrder made, or ValueError (the
\* InvalidInput of the row length check, or the one of __post_init__)
from_csv_row(row) ==
    IF Len(row) # 7
    THEN RowRaised("ValueError: CSV row must have exactly 7 columns")
    ELSE LET so == [order_id         |-> row[1],
                    product_id       |-> row[2],
                    product_name     |-> row[3],
                    quantity         |-> StrInt(row[4]),
                    delivery_address |-> row[5],
                    order_date       |-> row[6],
                    total_price      |-> StrFloat(row[7])]
         IN IF IsSome(StoredOrderPostInit(so))
            THEN RowRaised("ValueError: " \o StoredOrderPostInit(so)[1])
            ELSE RowReturned(so)

---------------------------------------------------------------------------
(* Order Processor: order_processor.py *)

ProductIds == {"P1", "P2"}
ArgProductIds == {"", "P1", "P2", "PX"}
Addresses == {"", "12 Main St"}
OrderIds == {"ORD0A1B2C", "ORDFFFFFF"}   \* "ORD" + uuid4().hex[:6].upper()

NameP1 == <<"A", "b">>
NameP2 == <<"B">>

\* The product dicts of the catalog file, with P1's stock_quantity s
CatalogProducts(s) ==
    <<[product_id |-> "P1", name |-> NameP1, price |-> 25,
       stock_quantity |-> s, category |-> "chairs",
       description |-> <<"o", "a", "k">>],
      [product_id |-> "P2", name |-> NameP2, price |-> 10,
       stock_quantity |-> 1, category |-> "chairs",
       description |-> <<>>]>>

CatalogFiles ==
    {[status |-> "ok", products |-> CatalogProducts(s)] : s \in 0..MaxStock}
    \cup {[status |-> "missing", products |-> <<>>],
          [status |-> "malformed", products |-> <<>>]}

EmptyTable == [p \in {} |-> 0]

Put(table, k, v) ==
    [x \in DOMAIN table \cup {k} |-> IF x = k THEN v ELSE table[x]]

RECURSIVE LoadProducts(_, _)
LoadProducts(table, plist) ==
    IF plist = <<>> THEN table
    ELSE LoadProducts(Put(table, Head(plist).product_id, Head(plist)),
                      Tail(plist))

\* Product.__post_init__ (reached through Product.from_dict): whether the
\* product dict makes a Product, rather than raising ValueError
ProductPostInit_AnyStock(data) ==
    /\ data.product_id # ""
    /\ data.name # <<>>
    /\ data.price >= 0
    /\ data.category # ""

ProductPostInit(data) ==
    /\ data.product_id # ""
    /\ data.name # <<>>
    /\ data.price >= 0
    /\ data.stock_quantity >= 0
    /\ data.category # ""

load_catalog_SkipInvalid(table, file) ==
    IF file.status = "ok"
    THEN LoadProducts(table, SelectSeq(file.products, ProductPostInit))
    ELSE EmptyTable

\* OrderProcessor._load_catalog: the product table after the call. The
\* products of the file are put into the table the processor already holds;
\* any exception (no file, no JSON, a product dict that raises) leaves {}
load_catalog(table, file) ==
    IF /\ file.status = "ok"
       /\ \A i \in 1..Len(file.products) : ProductPostInit(file.products[i])
    THEN LoadProducts(table, file.products)
    ELSE EmptyTable

\* The arguments of process_order
NameArgs ==
    {None, Some(<<>>), Some(NameP1), Some(<<"a", "B">>), Some(NameP2)}
OrderArgs ==
    {a \in [product_id : ArgProductIds,
            quantity : 0..(MaxStock + 1),
            quantity_is_int : BOOLEAN,
            delivery_address : Addresses,
            product_name : NameArgs,
            product_name_is_str : BOOLEAN] :
        /\ (~a.quantity_is_int => a.quantity = 0)
        /\ (~a.product_name_is_str => a.product_name = Some(<<"a", "B">>))}

\* OrderProcessor._get_category_alternatives, as product ids; the table is
\* walked in catalog order
CatalogOrder == <<"P1", "P2">>
get_category_alternatives(table, category, exclude_product_id) ==
    SelectSeq(CatalogOrder,
              LAMBDA pid : /\ pid \in DOMAIN table
                           /\ table[pid].category = category
                           /\ pid # exclude_product_id
                           /\ table[pid].stock_quantity > 0)

\* OrderProcessor.validate_product_availability: (is_valid, message, product).
\* A message is its distinctive phrase (kind) and the values it reports; the
\* "Did you mean" suggestions of an unknown id are text only and left out.
validate_product_availability(table, product_id, quantity) ==
    IF product_id \notin DOMAIN table
    THEN [valid |-> FALSE,
          message |-> [kind |-> "not found", product_id |-> product_id],
          product |-> None]
    ELSE LET product == table[product_id] IN
         IF ~is_in_stock(product, quantity)
         THEN [valid |-> FALSE,
               message |->
                 [kind |-> "Insufficient stock",
                  name |-> product.name,
                  available |-> product.stock_quantity,
                  requested |-> quantity,
                  order_up_to |-> IF product.stock_quantity > 0
                                  THEN Some(product.stock_quantity) ELSE None,
                  alternatives |->
                    IF product.stock_quantity > 0 THEN <<>>
                    ELSE Take(get_category_alternatives(
                                  table, product.category, product_id), 3)],
               product |-> Some(product)]
         ELSE [valid |-> TRUE,
               message |-> [kind |-> "Product available"],
               product |-> Some(product)]

Failure(message) ==
    [success |-> FALSE, message |-> message, order_id |-> None,
     total_price |-> None, order_details |-> None]

save_order_to_csv_Overwrite(rows, stored_order, write_ok) ==
    IF write_ok
    THEN [ledger |-> <<to_csv_row(stored_order)>>, saved |-> TRUE]
    ELSE [ledger |-> rows, saved |-> FALSE]

\* OrderProcessor.save_order_to_csv: the ledger after the call and the flag it
\* returns; write_ok is whether the file could be opened and written
save_order_to_csv(rows, stored_order, write_ok) ==
    IF write_ok
    THEN [ledger |-> Append(rows, to_csv_row(stored_order)), saved |-> TRUE]
    ELSE [ledger |-> rows, saved |-> FALSE]

DecrementStock_Never(table, product_id, quantity, saved) == table

DecrementStock_Always(table, product_id, quantity, saved) ==
    [table EXCEPT ![product_id].stock_quantity = @ - quantity]

DecrementStock_ByOne(table, product_id, quantity, saved) ==
    IF saved THEN [table EXCEPT ![product_id].stock_quantity = @ - 1]
    ELSE table

\* The stock update of process_order: "if self.save_order_to_csv(...):
\* self.products[product_id].stock_quantity -= quantity"
DecrementStock(table, product_id, quantity, saved) ==
    IF saved THEN [table EXCEPT ![product_id].stock_quantity = @ - quantity]
    ELSE table

process_order_LookupFirst(table, rows, a, order_id, write_ok) ==
    LET unchanged(res) == [result |-> res, products |-> table, ledger |-> rows]
        av == validate_product_availability(table, a.product_id, a.quantity)
    IN IF ~av.valid THEN unchanged(Failure(av.message))
       ELSE IF IsSome(OrderPostInit(a))
       THEN unchanged(Failure([kind |-> "Invalid order data",
                               reason |-> OrderPostInit(a)[1]]))
       ELSE unchanged(Failure([kind |-> "Failed to save order"]))

\* OrderProcessor.process_order: the result it returns, and the product table
\* and the ledger after the call
process_order(table, rows, a, order_id, write_ok) ==
    LET unchanged(res) == [result |-> res, products |-> table, ledger |-> rows]
        invalid == OrderPostInit(a)
    IN
    IF IsSome(invalid)
    THEN unchanged(Failure([kind |-> "Invalid order data",
                            reason |-> invalid[1]]))
    ELSE
    LET av == validate_product_availability(table, a.product_id, a.quantity)
    IN
    IF ~av.valid THEN unchanged(Failure(av.message))
    ELSE
    LET product == av.product[1] IN
    IF IsSome(a.product_name) /\ a.product_name[1] # <<>>
       /\ ~a.product_name_is_str
    THEN \* product_name.lower() raises AttributeError: except Exception
         unchanged(Failure([kind |-> "An unexpected error occurred"]))
    ELSE
    IF IsSome(a.product_name) /\ a.product_name[1] # <<>>
       /\ Lower(a.product_name[1]) # Lower(product.name)
    THEN unchanged(Failure([kind |-> "Product name mismatch",
                            expected |-> product.name,
                            product_id |-> a.product_id]))
    ELSE
    LET stored_order == from_order(a, product, order_id)
        bad == StoredOrderPostInit(stored_order)
    IN
    IF IsSome(bad)
    THEN unchanged(Failure([kind |-> "Invalid order data",
                            reason |-> bad[1]]))
    ELSE
    LET saved == save_order_to_csv(rows, stored_order, write_ok) IN
    IF saved.saved
    THEN [result |->
            [success |-> TRUE,
             message |-> [kind |-> "placed successfully",
                          order_id |-> stored_order.order_id,
                          name |-> product.name],
             order_id |-> Some(stored_order.order_id),
             total_price |-> Some(stored_order.total_price),
             order_details |->
               Some([product_name |-> product.name,
                     quantity |-> a.quantity,
                     unit_price |-> product.price,
                     total_price |-> stored_order.total_price,
                     delivery_address |-> a.delivery_address,
                     order_date |-> stored_order.order_date])],
          products |-> DecrementStock(table, a.product_id, a.quantity,
                                      saved.saved),
          ledger |-> saved.ledger]
    ELSE [result |-> Failure([kind |-> "Failed to save order"]),
          products |-> DecrementStock(table, a.product_id, a.quantity,
                                      saved.saved),
          ledger |-> saved.ledger]

NoResult == [success |-> FALSE, message |-> [kind |-> "none"],
             order_id |-> None, total_price |-> None, order_details |-> None]

\* The state after OrderProcessor.__init__: the catalog is loaded into an
\* empty table and the ledger file holds only its header row
OrdInit ==
    /\ catalog_file \in CatalogFiles
    /\ products = load_catalog(EmptyTable, catalog_file)
    /\ ledger = <<>>
    /\ result = NoResult
    /\ lastOp = "init"

\* Whether a call gets as far as save_order_to_csv: it is then, and only
\* then, that an order id is generated and the ledger file is opened
ReachesSave(table, a) ==
    process_order(table, <<>>, a, "ORD000000", FALSE).result.message.kind
        = "Failed to save order"

\* process_order called with the arguments a: what it does to the processor
\* and the ledger (the id that uuid4 yields is one of order_ids)
ProcessOrderCall(a, order_ids) ==
    /\ LET saves == ReachesSave(products, a) IN
       \E order_id \in IF saves THEN order_ids ELSE {"ORD000000"},
          write_ok \in IF saves THEN BOOLEAN ELSE {FALSE} :
         LET o == process_order(products, ledger, a, order_id, write_ok) IN
         /\ products' = o.products
         /\ ledger' = o.ledger
         /\ result' = o.result
    /\ lastOp' = "process_order"

\* One call of process_order, its arguments drawn from args
ProcessOrderFrom(args, order_ids) ==
    /\ Len(ledger) < MaxLedger
    /\ \E a \in args : ProcessOrderCall(a, order_ids)
    /\ UNCHANGED <<callVars, ragVars, agentVars, apiVars, catalog_file,
                   retryVars, extVars, chatVars>>

\* One call of process_order, observed: the arguments and the table the
\* processor held when called are kept next to the result
ProcessOrderObserved ==
    /\ Len(ledger) < MaxObserved
    /\ \E a \in OrderArgs :
         /\ ProcessOrderCall(a, {"ORD0A1B2C"})
         /\ call_args' = [op |-> "process_order", args |-> a,
                          table |-> products]
    /\ UNCHANGED <<call_result, ragVars, agentVars, apiVars, catalog_file,
                   retryVars, extVars, chatVars>>

\* One call of process_order
ProcessOrder == ProcessOrderFrom(OrderArgs, OrderIds)

\* One call of process_order by a caller that names no product and always
\* gives an address
PlainOrderArgs ==
    {a \in OrderArgs : /\ a.product_id # ""
                       /\ a.quantity_is_int
                       /\ a.delivery_address # ""
                       /\ a.product_name = None
                       /\ a.product_name_is_str}
ProcessPlainOrder == ProcessOrderFrom(PlainOrderArgs, {"ORD0A1B2C"})

\* One call of validate_product_availability
ValidateProductAvailability ==
    /\ \E product_id \in ArgProductIds \ {""},
          quantity \in (-1)..(MaxStock + 1) :
         LET av == validate_product_availability(products, product_id, quantity)
         IN \* the tuple returned, next to the arguments of the call
            result' = [success |-> av.valid, message |-> av.message,
                       order_id |-> None, total_price |-> None,
                       order_details |-> None, product |-> av.product,
                       product_id |-> product_id, quantity |-> quantity]
    /\ lastOp' = "validate_product_availability"
    /\ UNCHANGED <<callVars, ragVars, agentVars, apiVars, catalog_file, products, ledger, retryVars, extVars,
                   chatVars>>


\* OrderProcessor._initialize_csv_file: the header is written only when the
\* file does not exist; an existing ledger is left as it is
initialize_csv_file(rows) == rows

\* A further OrderProcessor is constructed on the same catalog and ledger
\* paths: __init__ loads the catalog into a new table and calls
\* _initialize_csv_file
ConstructProcessor ==
    /\ products' = load_catalog(EmptyTable, catalog_file)
    /\ ledger' = initialize_csv_file(ledger)
    /\ result' = NoResult
    /\ lastOp' = "construct"
    /\ UNCHANGED <<callVars, ragVars, catalog_file, retryVars, extVars, chatVars, apiVars,
                   agentVars>>

\* The catalog files an operator can leave at the catalog path while a
\* processor is running: the shipped ones, one without P2, one whose P2 has
\* a negative stock_quantity
EditedFiles ==
    CatalogFiles
    \cup {[status |-> "ok", products |-> SubSeq(CatalogProducts(1), 1, 1)]}
    \cup {[status |-> "ok",
           products |-> [CatalogProducts(1) EXCEPT ![2].stock_quantity = -1]]}

\* The catalog file is replaced on disk; the processor is not told
EditCatalog ==
    /\ catalog_file' \in EditedFiles \ {catalog_file}
    /\ lastOp' = "edit_catalog"
    /\ UNCHANGED <<callVars, ragVars, products, ledger, result, retryVars, extVars, chatVars,
                   apiVars, agentVars>>

\* OrderProcessor.reload_catalog: _load_catalog on the table the processor
\* holds; returns whether the table is non-empty afterwards
reload_catalog(table, file) ==
    LET loaded == load_catalog(table, file)
    IN [products |-> loaded, returns |-> loaded # EmptyTable]

\* One call of reload_catalog
ReloadCatalog ==
    /\ products' = reload_catalog(products, catalog_file).products
    /\ result' = [NoResult EXCEPT
                    !.success = reload_catalog(products, catalog_file).returns,
                    !.message = [kind |-> "reload_catalog"]]
    /\ lastOp' = "reload_catalog"
    /\ UNCHANGED <<callVars, ragVars, catalog_file, ledger, retryVars, extVars, chatVars,
                   apiVars, agentVars>>

---------------------------------------------------------------------------
(* LLM Service Client: sarvam_llm_service.py, _make_request_with_retry *)

Statuses == {200, 401, 404, 429, 500, 599, 600}

\* What one session.post can end in: an HTTP response (a 200 response has a
\* body that response.json() can or cannot decode), or an exception of the
\* HTTP library
Responses ==
    {[kind |-> "http", status |-> st, json_ok |-> TRUE] : st \in Statuses}
    \cup {[kind |-> "http", status |-> 200, json_ok |-> FALSE]}
    \cup {[kind |-> "timeout"], [kind |-> "connection_error"],
          [kind |-> "request_exception"]}

\* An exception: what it says, and the classes it is an instance of
Exc(error, classes) == [error |-> error, classes |-> classes]

\* The exception response.json() raises for an undecodable body.  The HTTP
\* library's own JSONDecodeError derives from RequestException and from
\* json.JSONDecodeError; an older library raises json.JSONDecodeError itself.
JsonError(is_request_exception) ==
    IF is_request_exception
    THEN Exc("JSONDecodeError",
             {"RequestException", "JSONDecodeError", "Exception"})
    ELSE Exc("JSONDecodeError", {"JSONDecodeError", "Exception"})

ExceptClauses_CatchAll ==
    <<"Timeout", "ConnectionError", "Exception", "JSONDecodeError">>

\* The except clauses of the try statement, in their order
ExceptClauses ==
    <<"Timeout", "ConnectionError", "RequestException", "JSONDecodeError">>

\* The first clause an exception matches (0: none, it propagates)
MatchingClause(exc) ==
    IF \E i \in DOMAIN ExceptClauses : ExceptClauses[i] \in exc.classes
    THEN CHOOSE i \in DOMAIN ExceptClauses :
            /\ ExceptClauses[i] \in exc.classes
            /\ \A j \in 1..(i - 1) : ExceptClauses[j] \notin exc.classes
    ELSE 0

InRange_OneMore(n, retries) == n < retries + 2

\* "for attempt in range(self.config.max_retries + 1)"
InRange(n, retries) == n < retries + 1

HasRetriesLeft_Inclusive(n, retries) == n <= retries

\* "if attempt < self.config.max_retries"
HasRetriesLeft(n, retries) == n < retries

RECURSIVE Pow2(_)
Pow2(n) == IF n = 0 THEN 1 ELSE 2 * Pow2(n - 1)

wait_time_Linear(n) == 2 * n

\* _wait_with_backoff: "wait_time = 2 ** attempt"
wait_time(n) == Pow2(n)

\* The body of the try statement for one answer of session.post: what it
\* does before any except clause applies
\*   [do |-> "return"]            return response.json()
\*   [do |-> "retry"]             wait with backoff and continue
\*   [do |-> "raise", exc |-> e]  an exception is raised inside the try
TryBody(r, n, retries, json_is_reqexc) ==
    IF r.kind = "timeout"
    THEN [do |-> "raise",
          exc |-> Exc("Timeout", {"Timeout", "RequestException", "Exception"})]
    ELSE IF r.kind = "connection_error"
    THEN [do |-> "raise",
          exc |-> Exc("ConnectionError",
                      {"ConnectionError", "RequestException", "Exception"})]
    ELSE IF r.kind = "request_exception"
    THEN [do |-> "raise",
          exc |-> Exc("RequestException", {"RequestException", "Exception"})]
    ELSE IF r.status = 200
    THEN IF r.json_ok THEN [do |-> "return"]
         ELSE [do |-> "raise", exc |-> JsonError(json_is_reqexc)]
    ELSE IF r.status = 401
    THEN [do |-> "raise", exc |-> Exc("Authentication failed", {"Exception"})]
    ELSE IF r.status = 429
    THEN IF HasRetriesLeft(n, retries) THEN [do |-> "retry"]
         ELSE [do |-> "raise",
               exc |-> Exc("Rate limit exceeded after all retries",
                           {"Exception"})]
    ELSE IF 500 <= r.status /\ r.status < 600
    THEN IF HasRetriesLeft(n, retries) THEN [do |-> "retry"]
         ELSE [do |-> "raise",
               exc |-> Exc("Server error after all retries", {"Exception"})]
    ELSE [do |-> "raise",
          exc |-> Exc("API request failed with status", {"Exception"})]

\* An except clause: the value it gives last_exception, and whether it retries
\* when attempts are left (clauses 1 to 3) or breaks (clause 4)
HandlerError(clause, exc) ==
    IF clause = 1 THEN "Request timeout"
    ELSE IF clause = 2 THEN "Connection error"
    ELSE exc.error
HandlerRetries(clause) == clause \in {1, 2, 3}

Running == [status |-> "running", error |-> "", body_of |-> -1]
Returned(n) == [status |-> "returned", error |-> "", body_of |-> n]
Raised(error) == [status |-> "raised", error |-> error, body_of |-> -1]

\* What follows the loop: "if last_exception: raise last_exception
\* else: raise Exception('API request failed after all retries')"
AfterLoop(last) ==
    IF IsSome(last) THEN Raised(last[1])
    ELSE Raised("API request failed after all retries")

AttemptEvent(n) == [ev |-> "attempt", n |-> n, secs |-> 0]
WaitEvent(n) == [ev |-> "wait", n |-> n, secs |-> wait_time(n)]

\* The state when _make_request_with_retry is entered
RetryInit ==
    /\ max_retries \in (-1)..MaxRetryCfg
    /\ json_error_is_request_exception \in BOOLEAN
    /\ attempt = 0
    /\ last_exception = None
    /\ responses = <<>>
    /\ waits = <<>>
    /\ log = <<>>
    /\ outcome = Running

\* The call goes on with a wait: _wait_with_backoff(attempt); continue
WaitAndContinue(last) ==
    /\ waits' = Append(waits, wait_time(attempt))
    /\ log' = log \o <<AttemptEvent(attempt), WaitEvent(attempt)>>
    /\ attempt' = attempt + 1
    /\ last_exception' = last
    /\ outcome' = IF InRange(attempt + 1, max_retries) THEN Running
                  ELSE AfterLoop(last)

\* The call ends at this attempt, without a wait
EndWith(last, how) ==
    /\ waits' = waits
    /\ log' = Append(log, AttemptEvent(attempt))
    /\ attempt' = attempt
    /\ last_exception' = last
    /\ outcome' = how

\* One iteration of the loop: one session.post and all that follows it, up to
\* the next iteration or the end of the call
Attempt ==
    /\ outcome.status = "running"
    /\ InRange(attempt, max_retries)
    /\ \E r \in Responses :
         /\ responses' = Append(responses, r)
         /\ LET body == TryBody(r, attempt, max_retries,
                                json_error_is_request_exception)
            IN
            IF body.do = "return" THEN EndWith(last_exception, Returned(attempt))
            ELSE IF body.do = "retry" THEN WaitAndContinue(last_exception)
            ELSE
            LET clause == MatchingClause(body.exc)
                last == Some(HandlerError(clause, body.exc))
            IN
            IF clause = 0
            THEN \* no clause matches: the exception leaves the function
                 EndWith(last_exception, Raised(body.exc.error))
            ELSE IF HandlerRetries(clause)
            THEN IF HasRetriesLeft(attempt, max_retries)
                 THEN WaitAndContinue(last)
                 ELSE \* the iteration ends; so does the loop unless the
                      \* range has another attempt
                      IF InRange(attempt + 1, max_retries)
                      THEN /\ waits' = waits
                           /\ log' = Append(log, AttemptEvent(attempt))
                           /\ attempt' = attempt + 1
                           /\ last_exception' = last
                           /\ outcome' = Running
                      ELSE EndWith(last, AfterLoop(last))
            ELSE \* break
                 EndWith(last, AfterLoop(last))
    /\ UNCHANGED <<callVars, ragVars, agentVars, apiVars, max_retries, json_error_is_request_exception, ordVars,
                   extVars, chatVars>>

\* The range is empty: the loop body never runs
NoAttempt ==
    /\ outcome.status = "running"
    /\ attempt = 0
    /\ ~InRange(attempt, max_retries)
    /\ outcome' = AfterLoop(last_exception)
    /\ UNCHANGED <<callVars, ragVars, agentVars, apiVars, max_retries, json_error_is_request_exception, attempt,
                   last_exception, responses, waits, log, ordVars, extVars,
                   chatVars>>

---------------------------------------------------------------------------
(* Response extraction: SarvamLLMService._extract_content_from_response and *)
(* its copy SarvamLLMWrapper._extract_content_from_response                 *)

ContentChars == {" ", "a", "b"}

\* The parsed API response, as far as extraction reads it:
\*   choices : "missing" (no such key), "empty" ([]) or "list"
\*   message : of choices[0]: "missing", "null" or "dict"
\*   content : of the message: "missing", "null" or "str", with its text
ResponseDatas ==
    {[choices |-> c, message |-> "missing", content |-> "missing",
      text |-> <<>>] : c \in {"missing", "empty"}}
    \cup {[choices |-> "list", message |-> m, content |-> "missing",
           text |-> <<>>] : m \in {"missing", "null"}}
    \cup {[choices |-> "list", message |-> "dict", content |-> k,
           text |-> <<>>] : k \in {"missing", "null"}}
    \cup {[choices |-> "list", message |-> "dict", content |-> "str",
           text |-> t] : t \in SeqsUpTo(ContentChars, MaxContentLen)}

ExtReturned(text) == [status |-> "returned", value |-> text, error |-> ""]
ExtRaised(error) == [status |-> "raised", value |-> <<>>, error |-> error]
ExtPending == [status |-> "pending", value |-> <<>>, error |-> ""]

\* The shared body of the two copies
\*   choices = response_data.get('choices', []);  if not choices: raise
\*   message = choices[0].get('message', {})
\*   content = message.get('content', '');        if not content: raise
\*   return content.strip()
\* The exceptions raised are not KeyError, IndexError or TypeError, so the
\* except clause lets them through.
ExtractBody(rd) ==
    IF rd.choices \in {"missing", "empty"}
    THEN ExtRaised("No choices in API response")
    ELSE IF rd.message = "null"
    THEN ExtRaised("AttributeError")   \* None.get
    ELSE IF rd.message = "missing" \/ rd.content \in {"missing", "null"}
            \/ rd.text = <<>>
    THEN ExtRaised("No content in API response")
    ELSE ExtReturned(Strip(rd.text))

\* SarvamLLMService._extract_content_from_response
extract_content_service(rd) == ExtractBody(rd)

\* SarvamLLMWrapper._extract_content_from_response
extract_content_wrapper(rd) == ExtractBody(rd)

ExtInit ==
    /\ extractor \in {"SarvamLLMService", "SarvamLLMWrapper"}
    /\ response_data \in ResponseDatas
    /\ extracted = ExtPending

ExtractService ==
    /\ extracted.status = "pending"
    /\ extractor = "SarvamLLMService"
    /\ extracted' = extract_content_service(response_data)
    /\ UNCHANGED <<callVars, ragVars, agentVars, apiVars, extractor, response_data, ordVars, retryVars, chatVars>>

ExtractWrapper ==
    /\ extracted.status = "pending"
    /\ extractor = "SarvamLLMWrapper"
    /\ extracted' = extract_content_wrapper(response_data)
    /\ UNCHANGED <<callVars, ragVars, agentVars, apiVars, extractor, response_data, ordVars, retryVars, chatVars>>

---------------------------------------------------------------------------
(* Chat Interface: chat_interface.py, the interactive loop of start_chat *)

\* The lines input() can return, before .strip()
InputLines ==
    {<<>>, <<" ">>, <<"q">>, <<"Q">>, <<" ", "q">>, <<"Q", "\t">>, <<"a">>,
     <<"q", "a">>, <<" ", "a", " ">>}

Line(text) == [kind |-> "line", text |-> text]
EndOfInput == [kind |-> "eof", text |-> <<>>]
ReadError == [kind |-> "error", text |-> <<>>]

\* ChatInterface._get_user_input: input("You: ").strip(), "Q" on EOFError
get_user_input(read) ==
    IF read.kind = "eof" THEN <<"Q">> ELSE Strip(read.text)

should_quit_CaseSensitive(user_input) == user_input = <<"Q">>

\* ChatInterface._should_quit
should_quit(user_input) == Upper(user_input) = <<"Q">>

\* ChatInterface._is_empty_input
is_empty_input(user_input) == Len(user_input) = 0

\* What agent.chat does with one message: an AgentResponse (successful, with
\* or without a function name, or unsuccessful), or an exception
\* (caught by _process_user_input), or a KeyboardInterrupt, which neither
\* LlamaIndexAgent.chat nor _process_user_input catches
AgentOutcomes ==
    {"success", "success_function", "unsuccessful", "raises", "interrupted"}

\* What _process_user_input prints: _display_response for a returned
\* AgentResponse, _handle_processing_error for an exception
ProcessOutput(agent_outcome) ==
    IF agent_outcome = "success" THEN "content"
    ELSE IF agent_outcome = "success_function" THEN "content+function"
    ELSE IF agent_outcome = "unsuccessful" THEN "apology"
    ELSE "processing error"

\* The state after ChatInterface.__init__
ChatInit ==
    /\ agent_ready \in BOOLEAN
    /\ session_active = FALSE
    /\ chat_pc = "constructed"
    /\ lines_read = <<>>
    /\ forwarded = <<>>
    /\ printed = <<>>

\* start_chat up to the loop
StartChat ==
    /\ chat_pc = "constructed"
    /\ IF ~agent_ready
       THEN /\ printed' = Append(printed, "not ready")
            /\ chat_pc' = "returned"
            /\ UNCHANGED session_active
       ELSE /\ session_active' = TRUE
            /\ printed' = Append(printed, "welcome")
            /\ chat_pc' = "loop"
    /\ UNCHANGED <<callVars, ragVars, agentVars, apiVars, agent_ready, lines_read, forwarded, ordVars, retryVars,
                   extVars>>

\* One iteration of the loop that reads a line (or the end of input)
Turn ==
    /\ chat_pc = "loop"
    /\ session_active
    /\ Len(lines_read) < MaxTurns
    /\ \E read \in {Line(t) : t \in InputLines} \cup {EndOfInput},
          agent_outcome \in AgentOutcomes :
         LET user_input == get_user_input(read) IN
         /\ lines_read' = Append(lines_read, read)
         /\ IF should_quit(user_input)
            THEN \* _handle_quit; break
                 /\ printed' = Append(printed, "farewell")
                 /\ session_active' = FALSE
                 /\ chat_pc' = "returned"
                 /\ UNCHANGED forwarded
            ELSE IF is_empty_input(user_input)
            THEN \* _handle_empty_input; continue
                 /\ printed' = Append(printed, "reprompt")
                 /\ UNCHANGED <<callVars, ragVars, agentVars, apiVars, session_active, chat_pc, forwarded>>
            ELSE \* _process_user_input
                 /\ forwarded' = Append(forwarded, user_input)
                 /\ IF agent_outcome = "interrupted"
                    THEN \* except KeyboardInterrupt: goodbye; break
                         /\ printed' = Append(printed, "goodbye")
                         /\ chat_pc' = "returned"
                    ELSE /\ printed' =
                              Append(printed, ProcessOutput(agent_outcome))
                         /\ UNCHANGED chat_pc
                 /\ UNCHANGED session_active
    /\ UNCHANGED <<callVars, ragVars, agentVars, apiVars, agent_ready, ordVars, retryVars, extVars>>

LoopAfter_Break(exception_class) == "break"

\* The except clauses of the loop's try statement: "except KeyboardInterrupt:
\* print goodbye; break" and "except Exception as e: self._handle_error(e)",
\* after which the while statement goes round again
LoopAfter(exception_class) ==
    IF exception_class = "KeyboardInterrupt" THEN "break" ELSE "continue"

\* An iteration in which reading raises an unexpected error: _handle_error,
\* and the loop goes on
TurnError ==
    /\ chat_pc = "loop"
    /\ session_active
    /\ Len(lines_read) < MaxTurns
    /\ lines_read' = Append(lines_read, ReadError)
    /\ printed' = Append(printed, "error occurred")
    /\ chat_pc' = IF LoopAfter("Exception") = "break" THEN "returned"
                  ELSE "loop"
    /\ UNCHANGED <<callVars, ragVars, agentVars, apiVars, agent_ready, session_active, forwarded, ordVars,
                   retryVars, extVars>>

\* KeyboardInterrupt in the loop: a goodbye is printed and the loop is left
Interrupt ==
    /\ chat_pc = "loop"
    /\ session_active
    /\ printed' = Append(printed, "goodbye")
    /\ chat_pc' = IF LoopAfter("KeyboardInterrupt") = "break" THEN "returned"
                  ELSE "loop"
    /\ UNCHANGED <<callVars, ragVars, agentVars, apiVars, agent_ready, session_active, lines_read, forwarded,
                   ordVars, retryVars, extVars>>

\* ChatInterface.stop_chat
StopChat ==
    /\ session_active
    /\ session_active' = FALSE
    /\ UNCHANGED <<callVars, ragVars, agentVars, apiVars, agent_ready, chat_pc, lines_read, forwarded, printed,
                   ordVars, retryVars, extVars>>

\* "while self.session_active" finds the flag cleared: start_chat returns
LoopExit ==
    /\ chat_pc = "loop"
    /\ ~session_active
    /\ chat_pc' = "returned"
    /\ UNCHANGED <<callVars, ragVars, agentVars, apiVars, agent_ready, session_active, lines_read, forwarded,
                   printed, ordVars, retryVars, extVars>>

---------------------------------------------------------------------------
(* Chat Interface: the network front-end, agentic_implemenatation *)

\* AgentResponse of llamaindex_agent.py
AgentResponse(content, function_called, success, error_message) ==
    [content |-> content, function_called |-> function_called,
     success |-> success, error_message |-> error_message]

\* Responses agent.chat can return: successful ones with and without a
\* function label, and unsuccessful ones
AgentResponses ==
    {AgentResponse("Here are our chairs", fc, TRUE, None) :
        fc \in {None, Some("lookup_products")}}
    \cup {AgentResponse("Sorry, I'm having trouble accessing the product catalog right now.",
                        None, FALSE, Some("Index not initialized"))}

\* How a call of agent.chat ends
ChatOutcomes ==
    {[kind |-> "response", response |-> r] : r \in AgentResponses}
    \cup {[kind |-> "raises", response |-> AgentResponse("", None, FALSE, None)]}

\* ChatInterface._display_response: the lines it prints
display_response(response) ==
    IF response.success
    THEN <<response.content>>
         \o (IF IsSome(response.function_called)
             THEN <<"[Function used: " \o response.function_called[1] \o "]">>
             ELSE <<>>)
    ELSE <<"I'm sorry, I encountered an issue while processing your request.">>
         \o (IF IsSome(response.error_message)
             THEN <<"Error details: " \o response.error_message[1]>>
             ELSE <<>>)
         \o <<"Please try again or rephrase your question.">>

\* ChatInterface._handle_processing_error: the lines it prints; it returns None
handle_processing_error_prints ==
    <<"I'm sorry, I encountered an unexpected error while processing your request.",
      "Please try again or contact support if the issue persists.">>
handle_processing_error_returns == None

\* ChatInterface._process_user_input: what the interactive path displays
process_user_input_prints(chat_outcome) ==
    IF chat_outcome.kind = "response"
    THEN display_response(chat_outcome.response)
    ELSE handle_processing_error_prints

\* ChatInterface.agentic_endpoint: response.content, or what
\* _handle_processing_error returns
agentic_endpoint(chat_outcome) ==
    IF chat_outcome.kind = "response"
    THEN Some(chat_outcome.response.content)
    ELSE handle_processing_error_returns

Secret == "abcd1234"
Passwords == {"abcd1234", "ABCD1234", ""}
Queries == {"q", "show chairs"}

\* The value response_endpoint returns on a wrong password: a set holding
\* one string
Rejection == [set_of |-> {"result: Incorrect Password"}]
Accepted(r) == [result |-> r]
ServerError == [status |-> 500]

password_matches_Always(password) == TRUE

\* "if query.password != 'abcd1234'"
password_matches(password) == password = Secret

\* Orders the reasoning loop may place through its tool during one chat
ToolOrders ==
    {a \in OrderArgs :
        /\ a.quantity_is_int /\ a.product_name_is_str
        /\ a.product_name = None /\ a.delivery_address # ""
        /\ \/ a.product_id = "P1"
           \/ a.product_id = "PX" /\ a.quantity = 1}
ApiOrderIds == {"ORD0A1B2C"}

NoOutcome == [kind |-> "none", response |-> AgentResponse("", None, FALSE, None)]

Served(password, query, chat_outcome, response) ==
    [password |-> password, query |-> query, outcome |-> chat_outcome,
     response |-> response]

\* The front-end before its first request: no Chat Interface, hence no Order
\* Processor, exists
ApiInit ==
    /\ catalog_file \in CatalogFiles
    /\ products = EmptyTable
    /\ ledger = <<>>
    /\ result = NoResult
    /\ lastOp = "none"
    /\ api_served = 0
    /\ api_last = Served("", "", NoOutcome, None)
    /\ constructed = 0

\* response_endpoint, wrong password
RespondRejected ==
    /\ api_served < MaxRequests
    /\ \E password \in Passwords, query \in Queries :
         /\ ~password_matches(password)
         /\ api_last' = Served(password, query, NoOutcome, Rejection)
    /\ api_served' = api_served + 1
    /\ UNCHANGED <<callVars, ragVars, agentVars, constructed, ordVars, retryVars, extVars, chatVars>>

\* response_endpoint, right password, ChatInterface() raises: HTTP 500
RespondConstructionFails ==
    /\ api_served < MaxRequests
    /\ \E password \in Passwords, query \in Queries :
         /\ password_matches(password)
         /\ api_last' = Served(password, query, NoOutcome, ServerError)
    /\ api_served' = api_served + 1
    /\ constructed' = constructed + 1
    /\ UNCHANGED <<callVars, ragVars, agentVars, ordVars, retryVars, extVars, chatVars>>

\* response_endpoint, right password: a fresh ChatInterface (with a fresh
\* Order Processor on the same catalog and ledger), one agent.chat, during
\* which the reasoning loop may place an order through its tool
RespondAccepted ==
    /\ api_served < MaxRequests
    /\ \E password \in Passwords, query \in Queries,
          chat_outcome \in ChatOutcomes :
         /\ password_matches(password)
         /\ api_last' = Served(password, query, chat_outcome,
                               Accepted(agentic_endpoint(chat_outcome)))
         \* the new interface's agent has been called once, with the query
         /\ forwarded' = <<query>>
    /\ api_served' = api_served + 1
    /\ constructed' = constructed + 1
    /\ LET fresh == load_catalog(EmptyTable, catalog_file) IN
       \/ /\ products' = fresh
          /\ UNCHANGED <<callVars, ragVars, agentVars, ledger, result, lastOp>>
       \/ /\ Len(ledger) < MaxApiOrders
          /\ \E a \in ToolOrders :
               LET saves == ReachesSave(fresh, a) IN
               \E order_id \in IF saves THEN ApiOrderIds ELSE {"ORD000000"},
                  write_ok \in IF saves THEN BOOLEAN ELSE {FALSE} :
                 LET o == process_order(fresh, ledger, a, order_id, write_ok)
                 IN /\ products' = o.products
                    /\ ledger' = o.ledger
                    /\ result' = o.result
          /\ lastOp' = "process_order"
    /\ UNCHANGED <<callVars, ragVars, agentVars, catalog_file, agent_ready, session_active, chat_pc,
                   lines_read, printed, retryVars, extVars>>

---------------------------------------------------------------------------
(* Agent Orchestrator: llamaindex_agent.py, LlamaIndexAgent.chat *)

\* "kw in text"
Contains(text, kw) ==
    \E i \in 1..(Len(text) - Len(kw) + 1) :
        SubSeq(text, i, i + Len(kw) - 1) = kw
ContainsAny(text, kws) == \E kw \in kws : Contains(text, kw)

\* order_keywords of _fallback_processing
order_keywords ==
    {<<"o", "r", "d", "e", "r">>,
     <<"b", "u", "y">>,
     <<"p", "u", "r", "c", "h", "a", "s", "e">>,
     <<"p", "l", "a", "c", "e", " ", "o", "r", "d", "e", "r">>,
     <<"w", "a", "n", "t", " ", "t", "o", " ", "o", "r", "d", "e", "r">>}

\* product_keywords of _fallback_processing
product_keywords ==
    {<<"p", "r", "o", "d", "u", "c", "t">>,
     <<"i", "t", "e", "m">>,
     <<"f", "u", "r", "n", "i", "t", "u", "r", "e">>,
     <<"c", "h", "a", "i", "r">>,
     <<"t", "a", "b", "l", "e">>,
     <<"s", "o", "f", "a">>,
     <<"s", "e", "a", "r", "c", "h">>,
     <<"f", "i", "n", "d">>,
     <<"s", "h", "o", "w">>,
     <<"w", "h", "a", "t">>,
     <<"t", "e", "l", "l", " ", "m", "e", " ", "a", "b", "o", "u", "t">>}

\* The substrings _extract_function_called looks for
lookup_marks ==
    {<<"l", "o", "o", "k", "u", "p", "_", "p", "r", "o", "d", "u", "c",
       "t", "s">>,
     <<"s", "e", "a", "r", "c", "h", "i", "n", "g">>}
order_marks ==
    {<<"p", "r", "o", "c", "e", "s", "s", "_", "o", "r", "d", "e", "r">>,
     <<"o", "r", "d", "e", "r", " ", "p", "l", "a", "c", "e", "d">>}

\* User messages: "Buy a chair", "show sofa", "hello", "uncomfortable",
\* "I WANT TO ORDER P1" and ""
Messages ==
    {<<"B", "u", "y", " ", "a", " ", "c", "h", "a", "i", "r">>,
     <<"s", "h", "o", "w", " ", "s", "o", "f", "a">>,
     <<"h", "e", "l", "l", "o">>,
     <<"u", "n", "c", "o", "m", "f", "o", "r", "t", "a", "b", "l", "e">>,
     <<"I", " ", "W", "A", "N", "T", " ", "T", "O", " ", "O", "R", "D",
       "E", "R", " ", "P", "1">>,
     <<>>}

\* Answers of the reasoning loop: "Searching chairs", "Order placed",
\* "order placed after searching", "used process_order" and "Done"
LoopAnswers ==
    {<<"S", "e", "a", "r", "c", "h", "i", "n", "g", " ", "c", "h", "a",
       "i", "r", "s">>,
     <<"O", "r", "d", "e", "r", " ", "p", "l", "a", "c", "e", "d">>,
     <<"o", "r", "d", "e", "r", " ", "p", "l", "a", "c", "e", "d", " ",
       "a", "f", "t", "e", "r", " ", "s", "e", "a", "r", "c", "h", "i",
       "n", "g">>,
     <<"u", "s", "e", "d", " ", "p", "r", "o", "c", "e", "s", "s", "_",
       "o", "r", "d", "e", "r">>,
     <<"D", "o", "n", "e">>}

\* A text chat can answer with: where it comes from, and its characters when
\* they are looked at
Text(src, chars) == [src |-> src, chars |-> chars]

extract_function_called_OrderFirst(response_content) ==
    IF ContainsAny(Lower(response_content), order_marks)
    THEN Some("process_order")
    ELSE IF ContainsAny(Lower(response_content), lookup_marks)
    THEN Some("lookup_products")
    ELSE None

\* LlamaIndexAgent._extract_function_called
extract_function_called(response_content) ==
    IF ContainsAny(Lower(response_content), lookup_marks)
    THEN Some("lookup_products")
    ELSE IF ContainsAny(Lower(response_content), order_marks)
    THEN Some("process_order")
    ELSE None

\* What the collaborators do during one chat
\*   loop   : agent.chat of the reasoning loop returns an answer, having used
\*            one of its tools or none, or raises
\*   search : search_products raises, finds nothing or finds products
\*   llm    : simple_completion returns or raises
Scenarios ==
    [loop : {[kind |-> "returns", answer |-> a, tool |-> t] :
                a \in LoopAnswers,
                t \in {"none", "lookup_products", "process_order"}}
            \cup {[kind |-> "raises", answer |-> <<>>, tool |-> "none"]},
     search : {"raises", "none", "some"},
     llm : {"returns", "raises"}]

\* RAGEngine._generate_fallback_response
generate_fallback_response(search) ==
    IF search = "none" THEN Text("no results answer", <<>>)
    ELSE Text("template answer", <<>>)

generate_response_Raises(search, llm) ==
    IF search = "none" THEN Text("no results answer", <<>>)
    ELSE IF llm = "returns" THEN Text("llm answer", <<>>)
    ELSE Text("raised", <<>>)

\* RAGEngine.generate_response
generate_response(search, llm) ==
    IF search = "none" THEN Text("no results answer", <<>>)
    ELSE IF llm = "returns" THEN Text("llm answer", <<>>)
    ELSE generate_fallback_response(search)

Reply(response, calls) == [response |-> response, calls |-> calls]

fallback_processing_ProductFirst(message, sc) ==
    IF ContainsAny(Lower(message), product_keywords)
    THEN Reply(AgentResponse(generate_response(sc.search, sc.llm),
                             Some("lookup_products"), TRUE, None),
               <<"search_products", "generate_response">>)
    ELSE Reply(AgentResponse(Text("order details prompt", <<>>), None, TRUE,
                             None), <<>>)

\* LlamaIndexAgent._fallback_processing
fallback_processing(message, sc) ==
    IF ContainsAny(Lower(message), order_keywords)
    THEN Reply(AgentResponse(Text("order details prompt", <<>>), None, TRUE,
                             None), <<>>)
    ELSE IF ContainsAny(Lower(message), product_keywords)
    THEN IF sc.search = "raises"
         THEN Reply(AgentResponse(Text("catalog trouble apology", <<>>), None,
                                  FALSE, Some("search_products raised")),
                    <<"search_products">>)
         ELSE LET answer == generate_response(sc.search, sc.llm) IN
              IF answer.src = "raised"
              THEN Reply(AgentResponse(Text("catalog trouble apology", <<>>),
                                       None, FALSE,
                                       Some("generate_response raised")),
                         <<"search_products", "generate_response">>)
              ELSE Reply(AgentResponse(answer, Some("lookup_products"), TRUE,
                                       None),
                         <<"search_products", "generate_response">>)
    ELSE Reply(AgentResponse(Text("not sure how to help prompt", <<>>), None,
                             TRUE, None), <<>>)

\* The calls the reasoning loop made through its tools
LoopCalls(loop) ==
    IF loop.tool = "lookup_products"
    THEN <<"search_products", "generate_response">>
    ELSE IF loop.tool = "process_order" THEN <<"process_order">>
    ELSE <<>>

Pending == AgentResponse(Text("pending", <<>>), None, FALSE, None)

\* The state when chat is called
AgentInit ==
    /\ agent_initialized \in BOOLEAN
    /\ user_message \in Messages
    /\ scenario \in Scenarios
    /\ agent_response = Pending
    /\ agent_calls = <<>>
    /\ tool_return = None

\* chat, "if not self.agent"
ChatNotInitialized ==
    /\ agent_response = Pending
    /\ ~agent_initialized
    /\ agent_response' =
         AgentResponse(Text("not available apology", <<>>), None, FALSE,
                       Some("Agent not initialized"))
    /\ UNCHANGED <<callVars, ragVars, agent_initialized, user_message, scenario, agent_calls,
                   tool_return, ordVars, retryVars, extVars, chatVars,
                   apiVars>>

\* chat, the reasoning loop returns an answer
ChatAnswered ==
    /\ agent_response = Pending
    /\ agent_initialized
    /\ scenario.loop.kind = "returns"
    /\ agent_response' =
         AgentResponse(Text("reasoning loop", scenario.loop.answer),
                       extract_function_called(scenario.loop.answer), TRUE,
                       None)
    /\ agent_calls' = LoopCalls(scenario.loop)
    /\ UNCHANGED <<callVars, ragVars, agent_initialized, user_message, scenario, tool_return,
                   ordVars, retryVars, extVars, chatVars, apiVars>>

\* chat, the reasoning loop raises: _fallback_processing
ChatFallback ==
    /\ agent_response = Pending
    /\ agent_initialized
    /\ scenario.loop.kind = "raises"
    /\ LET reply == fallback_processing(user_message, scenario) IN
       /\ agent_response' = reply.response
       /\ agent_calls' = reply.calls
    /\ UNCHANGED <<callVars, ragVars, agent_initialized, user_message, scenario, tool_return,
                   ordVars, retryVars, extVars, chatVars, apiVars>>

---------------------------------------------------------------------------
(* Agent Orchestrator: the process_order tool of *)
(* _create_order_placement_tool                   *)

\* "I'm sorry, I encountered an error while placing your order: ..."
ToolApology == [kind |-> "error while placing your order"]

\* What the tool returns when nothing is raised: "return result", the
\* dictionary process_order returned
order_tool_returns(order_result) == order_result

\* The tool called by the reasoning loop; OrderProcessor.process_order runs
\* and returns
OrderToolReturns ==
    /\ Len(ledger) < MaxLedger
    /\ \E a \in OrderArgs :
         LET saves == ReachesSave(products, a) IN
         \E order_id \in IF saves THEN OrderIds ELSE {"ORD000000"},
            write_ok \in IF saves THEN BOOLEAN ELSE {FALSE} :
           LET o == process_order(products, ledger, a, order_id, write_ok) IN
           /\ products' = o.products
           /\ ledger' = o.ledger
           /\ result' = o.result
           /\ tool_return' = Some(order_tool_returns(o.result))
    /\ lastOp' = "process_order"
    /\ UNCHANGED <<callVars, ragVars, catalog_file, agent_initialized, user_message, scenario,
                   agent_response, agent_calls, retryVars, extVars, chatVars,
                   apiVars>>

\* The tool called by the reasoning loop; an exception is raised inside its
\* try statement before the Order Processor has done anything
OrderToolApologises ==
    /\ Len(ledger) < MaxLedger
    /\ tool_return' = Some(ToolApology)
    /\ lastOp' = "tool apology"
    /\ UNCHANGED <<callVars, ragVars, catalog_file, products, ledger, result, agent_initialized,
                   user_message, scenario, agent_response, agent_calls,
                   retryVars, extVars, chatVars, apiVars>>

---------------------------------------------------------------------------
(* RAG Engine: rag_engine.py *)

DescriptionLimit == 100   \* product.description[:100]
TopShown == 5             \* products[:5]

\* RAGEngine._load_catalog: the list of Product made, or the exception
\* raised. A product dict that raises ValueError is skipped.
rag_load_catalog(file) ==
    IF file.status = "missing"
    THEN [raised |-> "FileNotFoundError", products |-> <<>>]
    ELSE IF file.status = "malformed"
    THEN [raised |-> "JSONDecodeError", products |-> <<>>]
    ELSE LET valid == SelectSeq(file.products, ProductPostInit) IN
         IF valid = <<>>
         THEN [raised |-> "ValueError", products |-> <<>>]
         ELSE [raised |-> "", products |-> valid]

\* RAGEngine.initialize_index, as called by __init__ on self.products = []:
\* self.products is assigned only when _load_catalog returned; building the
\* vector index can fail too (index_ok)
initialize_index(file, index_ok) ==
    LET loaded == rag_load_catalog(file) IN
    IF loaded.raised # ""
    THEN [status |-> loaded.raised, products |-> <<>>]
    ELSE IF ~index_ok
    THEN [status |-> "Exception", products |-> loaded.products]
    ELSE [status |-> "ready", products |-> loaded.products]

get_product_by_id_OfProcessor(plist, product_id) ==
    IF product_id \in DOMAIN products THEN Some(products[product_id])
    ELSE None

\* RAGEngine._get_product_by_id
get_product_by_id(plist, product_id) ==
    LET found == SelectSeq(plist, LAMBDA q : q.product_id = product_id)
    IN IF found = <<>> THEN None ELSE Some(Head(found))

\* RAGEngine.search_products, given the product ids of the nodes that the
\* retriever returned: each id once, with the product the engine holds
RECURSIVE search_products(_, _, _)
search_products(plist, node_ids, seen_product_ids) ==
    IF node_ids = <<>> THEN <<>>
    ELSE LET product_id == Head(node_ids)
             product == get_product_by_id(plist, product_id)
         IN IF product_id # "" /\ product_id \notin seen_product_ids
               /\ IsSome(product)
            THEN <<product[1]>>
                 \o search_products(plist, Tail(node_ids),
                                    seen_product_ids \cup {product_id})
            ELSE search_products(plist, Tail(node_ids), seen_product_ids)

\* sorted(): the categories in alphabetical order
CategoryOrder == <<"chairs", "desks", "tables">>

\* RAGEngine._get_available_categories
get_available_categories(plist) ==
    SelectSeq(CategoryOrder,
              LAMBDA c : \E i \in 1..Len(plist) : plist[i].category = c)

\* RAGEngine._format_products_for_response: the context given to the LLM
format_products_for_response(plist) ==
    [i \in 1..Len(plist) |->
        [index |-> i, name |-> plist[i].name,
         product_id |-> plist[i].product_id,
         category |-> plist[i].category, price |-> plist[i].price,
         stock_quantity |-> plist[i].stock_quantity,
         stock_status |-> IF plist[i].stock_quantity > 0 THEN "In Stock"
                          ELSE "Out of Stock",
         description |-> plist[i].description]]

\* RAGEngine._generate_no_results_response
rag_generate_no_results_response(query, engine_products) ==
    [kind |-> "no results", query |-> query,
     categories |-> get_available_categories(engine_products)]

FallbackItem(i, product, limit) ==
    [index |-> i, name |-> product.name, price |-> product.price,
     stock_info |-> IF product.stock_quantity > 0
                    THEN Some(product.stock_quantity) ELSE None,
     description |-> Take(product.description, limit),
     ellipsis |-> Len(product.description) > limit]

rag_generate_fallback_response_AllShown(query, plist, engine_products) ==
    IF plist = <<>>
    THEN rag_generate_no_results_response(query, engine_products)
    ELSE [kind |-> "fallback", query |-> query, found |-> Len(plist),
          items |-> [i \in 1..Len(plist) |->
                        FallbackItem(i, plist[i], DescriptionLimit)],
          more |-> None]

\* RAGEngine._generate_fallback_response
rag_generate_fallback_response(query, plist, engine_products) ==
    IF plist = <<>>
    THEN rag_generate_no_results_response(query, engine_products)
    ELSE [kind |-> "fallback", query |-> query, found |-> Len(plist),
          items |-> [i \in 1..Len(Take(plist, TopShown)) |->
                        FallbackItem(i, plist[i], DescriptionLimit)],
          more |-> IF Len(plist) > TopShown
                   THEN Some(Len(plist) - TopShown) ELSE None]

\* RAGEngine.generate_response: the answer, and how many times the LLM was
\* called. llm is what simple_completion does: "returns" or "raises".
rag_generate_response(query, plist, engine_products, llm) ==
    IF plist = <<>>
    THEN [answer |-> rag_generate_no_results_response(query, engine_products),
          llm_calls |-> 0]
    ELSE IF llm = "returns"
    THEN [answer |-> [kind |-> "llm", query |-> query,
                      context |-> format_products_for_response(plist)],
          llm_calls |-> 1]
    ELSE [answer |-> rag_generate_fallback_response(query, plist,
                                                    engine_products),
          llm_calls |-> 1]

RagReady == rag_status = "ready"

\* RAGEngine.__init__
ConstructRagEngine ==
    /\ rag_status = "none"
    /\ \E index_ok \in BOOLEAN :
         LET made == initialize_index(catalog_file, index_ok) IN
         /\ rag_products' = made.products
         /\ rag_status' = made.status
    /\ UNCHANGED <<callVars, ordVars, retryVars, extVars, chatVars, apiVars,
                   agentVars>>

\* One call of _get_product_by_id
RagGetProductById ==
    /\ RagReady
    /\ \E product_id \in ArgProductIds :
         /\ call_args' = [op |-> "get_product_by_id",
                          product_id |-> product_id]
         /\ call_result' = [op |-> "get_product_by_id",
                            returns |-> get_product_by_id(rag_products,
                                                          product_id)]
    /\ UNCHANGED <<ragVars, ordVars, retryVars, extVars, chatVars, apiVars,
                   agentVars>>

\* The product ids of the nodes a retrieval can return
NodeIds ==
    {<<>>, <<"P1">>, <<"P2">>, <<"P1", "P2">>, <<"P2", "P1">>,
     <<"P1", "P1", "P2">>}
SearchQueries == {"chair"}

\* One call of search_products
RagSearchProducts ==
    /\ RagReady
    /\ \E query \in SearchQueries, node_ids \in NodeIds :
         /\ call_args' = [op |-> "search_products", query |-> query]
         /\ call_result' = [op |-> "search_products",
                            returns |-> search_products(rag_products, node_ids,
                                                        {})]
    /\ UNCHANGED <<ragVars, ordVars, retryVars, extVars, chatVars, apiVars,
                   agentVars>>

\* One call of generate_response, on the products a search returned
RagGenerateResponse ==
    /\ RagReady
    /\ call_result.op = "search_products"
    /\ \E llm \in {"returns", "raises"} :
         /\ call_args' = [op |-> "generate_response",
                          query |-> call_args.query,
                          products |-> call_result.returns, llm |-> llm]
         /\ call_result' =
              [op |-> "generate_response",
               returns |-> rag_generate_response(call_args.query,
                                                 call_result.returns,
                                                 rag_products, llm)]
    /\ UNCHANGED <<ragVars, ordVars, retryVars, extVars, chatVars, apiVars,
                   agentVars>>

---------------------------------------------------------------------------
(* Specifications *)

RetryIdle ==
    /\ max_retries = 0
    /\ json_error_is_request_exception = TRUE
    /\ attempt = 0
    /\ last_exception = None
    /\ responses = <<>>
    /\ waits = <<>>
    /\ log = <<>>
    /\ outcome = [status |-> "idle", error |-> "", body_of |-> -1]

ExtIdle ==
    /\ extractor = "none"
    /\ response_data = [choices |-> "missing", message |-> "missing",
                        content |-> "missing", text |-> <<>>]
    /\ extracted = ExtPending

ChatIdle ==
    /\ agent_ready = FALSE
    /\ session_active = FALSE
    /\ chat_pc = "idle"
    /\ lines_read = <<>>
    /\ forwarded = <<>>
    /\ printed = <<>>

ApiIdle ==
    /\ api_served = 0
    /\ api_last = Served("", "", NoOutcome, None)
    /\ constructed = 0

AgentIdle ==
    /\ agent_initialized = FALSE
    /\ user_message = <<>>
    /\ scenario = [loop |-> [kind |-> "raises", answer |-> <<>>,
                             tool |-> "none"],
                   search |-> "raises", llm |-> "raises"]
    /\ agent_response = Pending
    /\ agent_calls = <<>>
    /\ tool_return = None

CallIdle ==
    /\ call_args = [op |-> "none"]
    /\ call_result = [op |-> "none"]

RagIdle ==
    /\ rag_products = <<>>
    /\ rag_status = "none"

\* The Order Processor
Init == CallIdle /\ RagIdle /\ OrdInit /\ RetryIdle /\ ExtIdle /\ ChatIdle /\ ApiIdle
    /\ AgentIdle
Next == ProcessOrder \/ ValidateProductAvailability
Spec == Init /\ [][Next]_vars

\* One processor, every call of process_order observed with its arguments
NextObserved == ProcessOrderObserved
SpecObserved == Init /\ [][NextObserved]_vars

OrdIdle ==
    /\ catalog_file = [status |-> "missing", products |-> <<>>]
    /\ products = EmptyTable
    /\ ledger = <<>>
    /\ result = NoResult
    /\ lastOp = "idle"

\* The ledger rows: a StoredOrder is written as a row and read back
StoredOrders ==
    {so \in [order_id : OrderIds, product_id : ProductIds,
             product_name : {NameP1, NameP2, <<"a", "B">>},
             quantity : 1..MaxQuantity,
             delivery_address : Addresses, order_date : {Today},
             total_price : {0, 10, 25 * MaxQuantity}] :
        StoredOrderPostInit(so) = None}

CsvInit ==
    /\ \E so \in StoredOrders : call_args = [op |-> "StoredOrder", order |-> so]
    /\ call_result = [op |-> "none"]

\* x.to_csv_row()
ToCsvRow ==
    /\ call_args.op = "StoredOrder"
    /\ call_result.op = "none"
    /\ call_result' = [op |-> "to_csv_row", row |-> to_csv_row(call_args.order)]
    /\ UNCHANGED <<call_args, ragVars, ordVars, retryVars, extVars, chatVars,
                   apiVars, agentVars>>

\* StoredOrder.from_csv_row on the row written, or on that row with its last
\* column lost, or with one column more
FromCsvRow ==
    /\ call_result.op = "to_csv_row"
    /\ \E row \in {call_result.row, Take(call_result.row, 6),
                    Append(call_result.row, "")} :
         call_result' = [op |-> "from_csv_row", row |-> row,
                         intact |-> (row = call_result.row),
                         outcome |-> from_csv_row(row)]
    /\ UNCHANGED <<call_args, ragVars, ordVars, retryVars, extVars, chatVars,
                   apiVars, agentVars>>

InitCsv == CsvInit /\ RagIdle /\ OrdIdle /\ RetryIdle /\ ExtIdle /\ ChatIdle
    /\ ApiIdle /\ AgentIdle
NextCsv == ToCsvRow \/ FromCsvRow
SpecCsv == InitCsv /\ [][NextCsv]_vars

\* The catalog files the components can be constructed on: a good one, a
\* missing one, one that is not JSON, one whose P2 has a negative
\* stock_quantity, one with an empty product list, one with no valid product
LoadFiles ==
    {[status |-> "ok", products |-> CatalogProducts(1)],
     [status |-> "missing", products |-> <<>>],
     [status |-> "malformed", products |-> <<>>],
     [status |-> "ok",
      products |-> [CatalogProducts(1) EXCEPT ![2].stock_quantity = -1]],
     [status |-> "ok", products |-> <<>>],
     [status |-> "ok",
      products |-> [CatalogProducts(1) EXCEPT ![1].stock_quantity = -1,
                                              ![2].name = <<>>]]}

\* An Order Processor constructed on any of these files, and a RAG Engine
\* about to be
LoadInit ==
    /\ catalog_file \in LoadFiles
    /\ products = load_catalog(EmptyTable, catalog_file)
    /\ ledger = <<>>
    /\ result = NoResult
    /\ lastOp = "init"

InitLoad == LoadInit /\ CallIdle /\ RagIdle /\ RetryIdle /\ ExtIdle /\ ChatIdle
    /\ ApiIdle /\ AgentIdle
NextLoad == ConstructRagEngine \/ ProcessOrderObserved
SpecLoad == InitLoad /\ [][NextLoad]_vars

\* generate_response on any list of products: a description of n characters
Desc(n) == [i \in 1..n |-> Digits[(i % 10) + 1]]

\* Products with no description, one of exactly the length shown, one longer
AnswerProducts ==
    <<[product_id |-> "P1", name |-> NameP1, price |-> 25,
       stock_quantity |-> MaxStock, category |-> "tables",
       description |-> Desc(0)],
      [product_id |-> "P2", name |-> NameP2, price |-> 10,
       stock_quantity |-> 0, category |-> "chairs",
       description |-> Desc(DescriptionLimit)],
      [product_id |-> "P3", name |-> <<"C">>, price |-> 5,
       stock_quantity |-> 1, category |-> "chairs",
       description |-> Desc(DescriptionLimit + 1)]>>

\* The lists generate_response is given, and the catalogs the engine holds
AnswerLists ==
    UNION {[1..n -> {AnswerProducts[k] : k \in 1..3}] : n \in 0..MaxProducts}
AnswerCatalogs ==
    {AnswerProducts, SubSeq(AnswerProducts, 3, 3),
     <<AnswerProducts[2], AnswerProducts[1]>>}

AnswerInit ==
    /\ rag_products \in AnswerCatalogs
    /\ rag_status = "ready"
    /\ \E plist \in AnswerLists, llm \in {"returns", "raises"} :
         call_args = [op |-> "generate_response", query |-> "chair",
                      products |-> plist, llm |-> llm]
    /\ call_result = [op |-> "none"]

\* One call of generate_response
GenerateResponse ==
    /\ RagReady
    /\ call_args.op = "generate_response"
    /\ call_result.op = "none"
    /\ call_result' =
         [op |-> "generate_response",
          returns |-> rag_generate_response(call_args.query,
                                            call_args.products, rag_products,
                                            call_args.llm)]
    /\ UNCHANGED <<call_args, ragVars, ordVars, retryVars, extVars, chatVars,
                   apiVars, agentVars>>

InitAnswer == AnswerInit /\ OrdIdle /\ RetryIdle /\ ExtIdle /\ ChatIdle
    /\ ApiIdle /\ AgentIdle
NextAnswer == GenerateResponse
SpecAnswer == InitAnswer /\ [][NextAnswer]_vars

\* The components of one assistant: a RAG Engine and an Order Processor
\* constructed on the same catalog file
NextRag ==
    ConstructRagEngine \/ ProcessPlainOrder \/ RagGetProductById
        \/ RagSearchProducts \/ RagGenerateResponse
SpecRag == Init /\ [][NextRag]_vars

\* One processor, with its catalog file edited and reloaded under it
NextReload ==
    ProcessPlainOrder \/ ValidateProductAvailability \/ ReloadCatalog
        \/ EditCatalog
SpecReload == Init /\ [][NextReload]_vars

\* One call of _make_request_with_retry
InitRetry == CallIdle /\ RagIdle /\ RetryInit /\ OrdIdle /\ ExtIdle /\ ChatIdle /\ ApiIdle
    /\ AgentIdle
NextRetry == Attempt \/ NoAttempt
SpecRetry == InitRetry /\ [][NextRetry]_vars

\* One call of _extract_content_from_response
InitExtract == CallIdle /\ RagIdle /\ ExtInit /\ OrdIdle /\ RetryIdle /\ ChatIdle /\ ApiIdle
    /\ AgentIdle
NextExtract == ExtractService \/ ExtractWrapper
SpecExtract == InitExtract /\ [][NextExtract]_vars

\* One interactive session
InitChat == CallIdle /\ RagIdle /\ ChatInit /\ OrdIdle /\ RetryIdle /\ ExtIdle /\ ApiIdle
    /\ AgentIdle
NextChat == StartChat \/ Turn \/ TurnError \/ Interrupt \/ StopChat \/ LoopExit
SpecChat == InitChat /\ [][NextChat]_vars

\* The network front-end serving requests
InitApi == CallIdle /\ RagIdle /\ ApiInit /\ RetryIdle /\ ExtIdle /\ ChatIdle
    /\ AgentIdle
NextApi == RespondRejected \/ RespondConstructionFails \/ RespondAccepted
SpecApi == InitApi /\ [][NextApi]_vars

\* One call of LlamaIndexAgent.chat
InitAgent == CallIdle /\ RagIdle /\ AgentInit /\ OrdIdle /\ RetryIdle /\ ExtIdle /\ ChatIdle /\ ApiIdle
NextAgent == ChatNotInitialized \/ ChatAnswered \/ ChatFallback
SpecAgent == InitAgent /\ [][NextAgent]_vars

\* Order Processors constructed one after another on one ledger
NextLedger == ProcessOrder \/ ConstructProcessor
SpecLedger == Init /\ [][NextLedger]_vars

\* The process_order tool on an Order Processor
NextTool == OrderToolReturns \/ OrderToolApologises
SpecTool == Init /\ [][NextTool]_vars


---------------------------------------------------------------------------
(* Claims about the Order Processor *)

\* The table as loaded from the catalog file at construction
LoadedTable == load_catalog(EmptyTable, catalog_file)

\* The sum of the quantity column over the ledger rows of one product
RECURSIVE SumQuantity(_, _)
SumQuantity(rows, product_id) ==
    IF rows = <<>> THEN 0
    ELSE (IF Head(rows)[2] = product_id THEN StrInt(Head(rows)[4]) ELSE 0)
         + SumQuantity(Tail(rows), product_id)

\* A supplied product_name that does not conflict with the catalog name
NoConflictingName(a, product) ==
    \/ a.product_name = None
    \/ a.product_name[1] = <<>>
    \/ a.product_name_is_str /\ Lower(a.product_name[1]) = Lower(product.name)

\* Valid order data for a product of the table with enough stock
Orderable(table, a) ==
    /\ a.product_id \in DOMAIN table
    /\ a.quantity_is_int
    /\ a.quantity > 0
    /\ table[a.product_id].stock_quantity >= a.quantity
    /\ a.delivery_address # ""
    /\ NoConflictingName(a, table[a.product_id])

\* What C1 promises of one call, from the state before it to the state after
C1_Effect(table, rows, a, table2, rows2, res) ==
    /\ Len(rows2) = Len(rows) + 1
    /\ SubSeq(rows2, 1, Len(rows)) = rows
    /\ DOMAIN table2 = DOMAIN table
    /\ table2[a.product_id].stock_quantity
         = table[a.product_id].stock_quantity - a.quantity
    /\ \A p \in DOMAIN table \ {a.product_id} : table2[p] = table[p]
    /\ res.success
    /\ res.total_price = Some(table[a.product_id].price * a.quantity)

\* In every reachable state, every call the precondition admits has the
\* promised effect
C1_EveryCall ==
    \A a \in OrderArgs, order_id \in OrderIds :
        Orderable(products, a) =>
            LET o == process_order(products, ledger, a, order_id, TRUE) IN
            C1_Effect(products, ledger, a, o.products, o.ledger, o.result)

\* Every process_order step that reports success is such a call: one row
\* more, that row's product decremented by that row's quantity
C1_Step ==
    (lastOp' = "process_order" /\ result'.success) =>
        /\ Len(ledger') = Len(ledger) + 1
        /\ SubSeq(ledger', 1, Len(ledger)) = ledger
        /\ LET row == ledger'[Len(ledger')]
               pid == row[2]
               qty == StrInt(row[4])
           IN /\ pid \in DOMAIN products
              /\ DOMAIN products' = DOMAIN products
              /\ products'[pid].stock_quantity
                    = products[pid].stock_quantity - qty
              /\ \A p \in DOMAIN products \ {pid} : products'[p] = products[p]
              /\ result'.total_price = Some(products[pid].price * qty)

\* C1: for every known product with stock_quantity >= quantity > 0, a
\* non-empty delivery address, no conflicting product_name and a successful
\* ledger append, one call of process_order appends exactly one row to the
\* ledger, decreases that product's stock_quantity by exactly quantity, leaves
\* every other product alone, and returns success = true with total_price =
\* unit price * quantity.
C1_ProcessOrderSuccess == [](C1_EveryCall) /\ [][C1_Step]_vars

\* A successful order has been placed: a row is in the ledger and the stock of
\* its product is below the catalog's
C1_Witness ==
    /\ lastOp = "process_order"
    /\ result.success
    /\ Len(ledger) >= 1
    /\ \E p \in DOMAIN products :
         products[p].stock_quantity < LoadedTable[p].stock_quantity

\* In every reachable state the stock a next call is checked against is the
\* loaded stock less everything ordered so far, and the call succeeds exactly
\* when the quantity fits
C2_EveryCall ==
    \A a \in OrderArgs, order_id \in OrderIds :
        (/\ a.product_id \in DOMAIN products
         /\ a.quantity_is_int /\ a.quantity > 0
         /\ a.delivery_address # ""
         /\ NoConflictingName(a, products[a.product_id])) =>
            LET left == LoadedTable[a.product_id].stock_quantity
                          - SumQuantity(ledger, a.product_id)
                o == process_order(products, ledger, a, order_id, TRUE)
            IN /\ o.result.success <=> (a.quantity <= left)
               /\ ~o.result.success =>
                    /\ o.result.message.kind = "Insufficient stock"
                    /\ o.result.message.available = left
                    /\ o.result.message.requested = a.quantity

\* C2: within one Order Processor instance the availability check of a later
\* process_order call sees the cumulative decrement of all earlier successful
\* calls: after successful orders of q1 for a product with initial stock s, an
\* order of q2 succeeds iff q2 <= s - q1, and otherwise fails with an
\* 'Insufficient stock' message reporting available = s - q1.
C2_CumulativeDecrement == C2_EveryCall

\* After a successful order of a product, a later order of it was refused
\* with the reduced stock reported as available
C2_Witness ==
    /\ lastOp = "process_order"
    /\ result.message.kind = "Insufficient stock"
    /\ \E p \in DOMAIN products :
         /\ SumQuantity(ledger, p) > 0
         /\ result.message.name = products[p].name
         /\ result.message.available
              = LoadedTable[p].stock_quantity - SumQuantity(ledger, p)
         /\ result.message.available > 0

\* Every process_order step returns a result; when it reports success = false
\* it carries no order id and no total price, and the stock of every product
\* is what it was before the step
C3_Step ==
    (lastOp' = "process_order") =>
      /\ result'.success \in BOOLEAN
      /\ ~result'.success =>
        /\ result'.order_id = None
        /\ result'.total_price = None
        /\ DOMAIN products' = DOMAIN products
        /\ \A p \in DOMAIN products :
             products'[p].stock_quantity = products[p].stock_quantity

\* C3: process_order never raises to its caller: every failure (invalid order
\* data, unknown product, insufficient stock, name mismatch, failed ledger
\* append, unexpected error) is returned as a result with success = false and
\* order_id and total_price absent; and whenever the result has success =
\* false, every product's stock_quantity is what it was before the call.
C3_FailuresReturned == [][C3_Step]_vars

\* An order of an orderable product failed at the ledger append, after an
\* earlier order had succeeded
C3_Witness ==
    /\ lastOp = "process_order"
    /\ ~result.success
    /\ result.message.kind = "Failed to save order"
    /\ Len(ledger) >= 1


---------------------------------------------------------------------------
(* Claims about _make_request_with_retry *)

IsRetryStatus(r) ==
    r.kind = "http" /\ (r.status = 429 \/ (500 <= r.status /\ r.status < 600))
IsFatalStatus(r) ==
    r.kind = "http" /\ r.status \notin {200, 429}
                    /\ ~(500 <= r.status /\ r.status < 600)
IsNetworkFailure(r) == r.kind \in {"timeout", "connection_error"}
IsGood200(r) == r.kind = "http" /\ r.status = 200 /\ r.json_ok
IsBad200(r) == r.kind = "http" /\ r.status = 200 /\ ~r.json_ok

\* The attempt with 0-based index n was followed by a wait
WaitFollows(n) ==
    \E k \in 1..(Len(log) - 1) :
        /\ log[k].ev = "attempt" /\ log[k].n = n
        /\ log[k + 1].ev = "wait" /\ log[k + 1].n = n

\* The attempt with 0-based index n is the last thing the call did
EndedAtAttempt(n) ==
    /\ outcome.status \in {"returned", "raised"}
    /\ Len(responses) = n + 1
    /\ log # <<>>
    /\ log[Len(log)].ev = "attempt"
    /\ log[Len(log)].n = n

\* C4: _make_request_with_retry makes at most max_retries + 1 HTTP attempts per
\* call; when every attempt returns 429 or a 5xx status it makes exactly
\* max_retries + 1 attempts (4 with max_retries = 3) and then fails with a
\* rate-limit or server-error failure, never returning a body.
C4_AttemptsBounded ==
    /\ Len(responses) <= max_retries + 1
    /\ (responses # <<>>
        /\ \A i \in DOMAIN responses : IsRetryStatus(responses[i])) =>
          /\ outcome.status # "returned"
          /\ Len(responses) = max_retries + 1 <=> outcome.status = "raised"
          /\ Len(responses) < max_retries + 1 <=> outcome.status = "running"
          /\ outcome.status = "raised" =>
               outcome.error = IF responses[Len(responses)].status = 429
                               THEN "Rate limit exceeded after all retries"
                               ELSE "Server error after all retries"

\* With max_retries = 3, four attempts were answered 500 and the call failed
C4_Witness ==
    /\ max_retries = 3
    /\ Len(responses) = 4
    /\ \A i \in DOMAIN responses :
         responses[i].kind = "http" /\ responses[i].status = 500
    /\ outcome = Raised("Server error after all retries")

\* C5: an attempt answered 401, or any status other than 200, 429 and 5xx,
\* fails the call at once: no backoff wait follows it and no further attempt
\* is made, whatever max_retries is and however many attempts remain.
C5_FatalStatusFailsAtOnce ==
    \A i \in DOMAIN responses :
        IsFatalStatus(responses[i]) =>
            /\ EndedAtAttempt(i - 1)
            /\ ~WaitFollows(i - 1)
            /\ outcome = Raised(IF responses[i].status = 401
                                THEN "Authentication failed"
                                ELSE "API request failed with status")

\* With attempts left, a 401 after a retried 429 ended the call
C5_Witness ==
    /\ max_retries = 3
    /\ Len(responses) = 2
    /\ responses[1].kind = "http" /\ responses[1].status = 429
    /\ responses[2].kind = "http" /\ responses[2].status = 401
    /\ outcome.status = "raised"
    /\ waits = <<1>>

\* 2^n for the attempt indices the model reaches
ExpectedBackoff == <<1, 2, 4, 8, 16, 32, 64>>

\* C6: the wait after the failed attempt with 0-based index n is exactly 2^n
\* seconds (1, 2, 4, ...); a wait occurs only between two attempts, never
\* after the last attempt and never before the first; and for the answers
\* 429, 429, 200 the client waits 1s, then 2s, and returns the body of the 200
\* response after exactly 3 attempts.
C6_BackoffSchedule ==
    /\ \A k \in DOMAIN log :
         log[k].ev = "wait" =>
            /\ k > 1
            /\ log[k - 1].ev = "attempt" /\ log[k - 1].n = log[k].n
            /\ log[k].secs = ExpectedBackoff[log[k].n + 1]
            /\ k < Len(log) =>
                 log[k + 1].ev = "attempt" /\ log[k + 1].n = log[k].n + 1
            /\ k = Len(log) =>
                 outcome.status = "running" /\ attempt <= max_retries
    /\ \A i \in DOMAIN waits : waits[i] = ExpectedBackoff[i]
    /\ Len(waits) = Cardinality({k \in DOMAIN log : log[k].ev = "wait"})
    /\ (/\ Len(responses) = 3
        /\ responses[1].kind = "http" /\ responses[1].status = 429
        /\ responses[2].kind = "http" /\ responses[2].status = 429
        /\ IsGood200(responses[3])) =>
          /\ waits = <<1, 2>>
          /\ outcome = Returned(2)
          /\ EndedAtAttempt(2)

\* The answers were 429, 429, 200 and the call returned
C6_Witness ==
    /\ Len(responses) = 3
    /\ responses[1].kind = "http" /\ responses[1].status = 429
    /\ responses[2].kind = "http" /\ responses[2].status = 429
    /\ IsGood200(responses[3])
    /\ outcome.status = "returned"
    /\ Len(waits) = 2

\* C7: an attempt answered 200 with a body that cannot be decoded as JSON fails
\* the call at once: no backoff wait follows it and no further attempt is
\* made, even when attempts remain.
C7_BadJsonFailsAtOnce ==
    \A i \in DOMAIN responses :
        IsBad200(responses[i]) =>
            /\ EndedAtAttempt(i - 1)
            /\ ~WaitFollows(i - 1)
            /\ outcome.status = "raised"

\* C8: an attempt that ends in a network timeout or connection failure is
\* retried with backoff if attempts remain; when it is the last of the
\* max_retries + 1 attempts the call raises a timeout / connection failure
\* without waiting again; and a later attempt answered 200 makes the call
\* return that body.
C8_NetworkFailuresRetried ==
    /\ \A i \in DOMAIN responses :
         IsNetworkFailure(responses[i]) =>
            IF i - 1 < max_retries
            THEN /\ WaitFollows(i - 1)
                 /\ i = Len(responses) => outcome.status = "running"
            ELSE /\ i = max_retries + 1
                 /\ EndedAtAttempt(i - 1)
                 /\ ~WaitFollows(i - 1)
                 /\ outcome = Raised(IF responses[i].kind = "timeout"
                                     THEN "Request timeout"
                                     ELSE "Connection error")
    /\ (/\ Len(responses) >= 2
        /\ \A i \in 1..(Len(responses) - 1) : IsNetworkFailure(responses[i])
        /\ IsGood200(responses[Len(responses)])) =>
          /\ outcome = Returned(Len(responses) - 1)
          /\ Len(waits) = Len(responses) - 1

\* Every one of the max_retries + 1 attempts timed out or failed to connect,
\* and the call raised after waiting between the attempts only
C8_Witness ==
    /\ max_retries = 2
    /\ Len(responses) = 3
    /\ \A i \in DOMAIN responses : IsNetworkFailure(responses[i])
    /\ responses[3].kind = "connection_error"
    /\ outcome = Raised("Connection error")
    /\ waits = <<1, 2>>


---------------------------------------------------------------------------
(* Claims about _extract_content_from_response *)

\* The response has no usable content: no first choice, no message in it,
\* or a content that is absent or empty once trimmed
NothingToExtract(rd) ==
    \/ rd.choices \in {"missing", "empty"}
    \/ rd.message \in {"missing", "null"}
    \/ rd.content \in {"missing", "null"}
    \/ Strip(rd.text) = <<>>

\* C9: in both copies, extraction returns choices[0].message.content
\* trimmed, and fails whenever choices is empty or missing, the first choice
\* has no message, or the content is empty after trimming; it never returns
\* the empty string.
C9_ExtractionNeverEmpty ==
    extracted.status # "pending" =>
        /\ IF NothingToExtract(response_data)
           THEN extracted.status = "raised"
           ELSE extracted = ExtReturned(Strip(response_data.text))
        /\ ~(extracted.status = "returned" /\ extracted.value = <<>>)

---------------------------------------------------------------------------
(* Claims about the interactive loop *)

LastRead == lines_read'[Len(lines_read')]
ReadsOne == Len(lines_read') = Len(lines_read) + 1 /\ LastRead.kind # "error"

IsEmptyLine(read) == read.kind = "line" /\ Strip(read.text) = <<>>

\* a line equal to 'q' or 'Q', or end-of-input
IsQuit_Exact(read) ==
    \/ read.kind = "eof"
    \/ read.kind = "line" /\ read.text \in {<<"q">>, <<"Q">>}

\* a line whose trimmed text is 'q' or 'Q', or end-of-input
IsQuit_Trimmed(read) ==
    \/ read.kind = "eof"
    \/ read.kind = "line" /\ Strip(read.text) \in {<<"q">>, <<"Q">>}

\* What the loop does with the line it reads in a step, IsQuit(_) telling
\* which lines are quit commands
LoopContract(IsQuit(_)) ==
    /\ ReadsOne =>
         /\ chat_pc = "loop" /\ session_active /\ agent_ready
         /\ IF IsQuit(LastRead)
            THEN /\ forwarded' = forwarded
                 /\ printed' = Append(printed, "farewell")
                 /\ ~session_active'
                 /\ chat_pc' = "returned"
            ELSE IF IsEmptyLine(LastRead)
            THEN /\ forwarded' = forwarded
                 /\ printed' = Append(printed, "reprompt")
                 /\ session_active'
                 /\ chat_pc' = "loop"
            ELSE forwarded' = Append(forwarded, Strip(LastRead.text))
    \* the orchestrator is called only for a line just read
    /\ forwarded' # forwarded => ReadsOne
    \* once start_chat has returned nothing is read or forwarded
    /\ chat_pc = "returned" => lines_read' = lines_read /\ forwarded' = forwarded

C10_Step_Exact == LoopContract(IsQuit_Exact)
C10_Step_Trimmed == LoopContract(IsQuit_Trimmed)

\* C10 as stated: an empty line (after trimming) prints a re-prompt, calls
\* nothing and leaves the session active; a line equal to 'q' or 'Q', or
\* end-of-input, ends the session with a farewell without a call; every
\* other non-empty line is forwarded exactly once; nothing is read or
\* forwarded after the quit.
C10_LoopAsStated == [][C10_Step_Exact]_vars

\* C10 amended: the same, the quit command being a line whose trimmed text
\* is 'q' or 'Q' (or end-of-input), and the forwarded lines being all others
\* that are non-empty after trimming.
C10_LoopTrimmedQuit == [][C10_Step_Trimmed]_vars

\* An empty line, a forwarded line, then " q" ends the session
C10_Witness ==
    /\ Len(lines_read) = 3
    /\ lines_read[1] = Line(<<" ">>)
    /\ lines_read[2] = Line(<<"q", "a">>)
    /\ lines_read[3] = Line(<<" ", "q">>)
    /\ forwarded = << <<"q", "a">> >>
    /\ printed = <<"welcome", "reprompt", "content", "farewell">>
    /\ chat_pc = "returned"
    /\ ~session_active

\* A step in which an unexpected error is raised while reading
ReadErrorStep ==
    Len(lines_read') = Len(lines_read) + 1 /\ LastRead.kind = "error"

\* A step in which processing the line read raises an unexpected error
ProcessingErrorStep ==
    ReadsOne /\ printed' = Append(printed, "processing error")

C11_Step ==
    /\ ReadErrorStep =>
         /\ printed' = Append(printed, "error occurred")
         /\ chat_pc' = "loop" /\ session_active'
    /\ ProcessingErrorStep =>
         /\ forwarded' = Append(forwarded, Strip(LastRead.text))
         /\ chat_pc' = "loop" /\ session_active'
    /\ (chat_pc = "loop" /\ chat_pc' = "returned") =>
         \/ ReadsOne /\ IsQuit_Trimmed(LastRead)          \* quit command
         \/ printed' = Append(printed, "goodbye")         \* interrupt signal
         \/ ~session_active                               \* stop_chat called

---------------------------------------------------------------------------
(* Claims about the network front-end *)

ServesOne == api_served' = api_served + 1

C12_Step ==
    (ServesOne /\ api_last'.password # Secret) =>
        /\ api_last'.response = Rejection
        /\ constructed' = constructed
        /\ forwarded' = forwarded
        /\ products' = products
        /\ ledger' = ledger
        /\ result' = result

\* C12: a POST /respond request whose password differs from 'abcd1234'
\* returns the fixed rejection payload, constructs no Chat Interface, calls
\* the orchestrator not at all, places no order and changes neither ledger
\* nor stock, whatever the query text.
C12_WrongPasswordRejected == [][C12_Step]_vars

\* A rejected request served after an accepted one that placed an order
C12_Witness ==
    /\ api_served = 2
    /\ api_last.password = "ABCD1234"
    /\ api_last.query = "show chairs"
    /\ api_last.response = Rejection
    /\ constructed = 1
    /\ Len(ledger) = 1
    /\ forwarded = <<"q">>

\* C13: for every query text and every orchestrator outcome (successful
\* response, unsuccessful response, raised error), POST /respond with the
\* right password returns {"result": r}, r being the answer text the
\* interactive path displays for that outcome.
C13_SameAnswerAsInteractive ==
    (api_last.password = Secret /\ api_last.outcome.kind # "none") =>
        api_last.response =
            Accepted(Some(process_user_input_prints(api_last.outcome)[1]))

---------------------------------------------------------------------------
(* Claims about LlamaIndexAgent.chat *)

Answered == agent_response # Pending
LoopRaised == agent_initialized /\ scenario.loop.kind = "raises"
LoopReturned == agent_initialized /\ scenario.loop.kind = "returns"

HasOrderKeyword == ContainsAny(Lower(user_message), order_keywords)
HasProductKeyword == ContainsAny(Lower(user_message), product_keywords)

FallbackTexts ==
    {"order details prompt", "not sure how to help prompt", "llm answer",
     "template answer", "no results answer", "catalog trouble apology"}

HasLookupMark == ContainsAny(Lower(scenario.loop.answer), lookup_marks)
HasOrderMark == ContainsAny(Lower(scenario.loop.answer), order_marks)

\* C19 as stated: after a successful reasoning-loop turn function_called is
\* 'lookup_products' if the answer contains 'lookup_products' or
\* 'searching', 'process_order' if it contains 'process_order' or 'order
\* placed', and absent exactly when it contains none of the four.
C19_FunctionLabelAsStated ==
    (Answered /\ LoopReturned) =>
        /\ HasLookupMark => agent_response.function_called = Some("lookup_products")
        /\ HasOrderMark => agent_response.function_called = Some("process_order")
        /\ agent_response.function_called = None
             <=> (~HasLookupMark /\ ~HasOrderMark)

\* C19 amended: the label is 'lookup_products' if the answer contains a
\* lookup substring, 'process_order' if it contains an order substring and
\* no lookup substring, and absent exactly when it contains none.
C19_FunctionLabelPriority ==
    (Answered /\ LoopReturned) =>
        /\ agent_response.success
        /\ agent_response.content = Text("reasoning loop", scenario.loop.answer)
        /\ HasLookupMark => agent_response.function_called = Some("lookup_products")
        /\ (HasOrderMark /\ ~HasLookupMark) =>
               agent_response.function_called = Some("process_order")
        /\ agent_response.function_called = None
             <=> (~HasLookupMark /\ ~HasOrderMark)

\* An answer holding both an order and a lookup substring, labelled lookup
\* although the loop used the order tool
C19_Witness ==
    /\ Answered /\ LoopReturned
    /\ HasLookupMark /\ HasOrderMark
    /\ scenario.loop.tool = "process_order"
    /\ agent_response.function_called = Some("lookup_products")

\* C20: when the reasoning loop raises, a message with an order keyword gets
\* the fixed order-details prompt (success, no function label) with no call
\* to the RAG Engine or the Order Processor, even if it also holds product
\* keywords; else a message with a product keyword gets search_products then
\* generate_response (success, labelled 'lookup_products'; unsuccessful with
\* the error if the search raises); else the fixed 'not sure how to help'
\* prompt; the fallback never places an order.
C20_FallbackPriority ==
    (Answered /\ LoopRaised) =>
        /\ HasOrderKeyword =>
             /\ agent_response =
                  AgentResponse(Text("order details prompt", <<>>), None,
                                TRUE, None)
             /\ agent_calls = <<>>
        /\ (~HasOrderKeyword /\ HasProductKeyword) =>
             IF scenario.search = "raises"
             THEN /\ ~agent_response.success
                  /\ IsSome(agent_response.error_message)
                  /\ agent_calls = <<"search_products">>
             ELSE /\ agent_response.success
                  /\ agent_response.function_called = Some("lookup_products")
                  /\ agent_calls = <<"search_products", "generate_response">>
        /\ (~HasOrderKeyword /\ ~HasProductKeyword) =>
             /\ agent_response =
                  AgentResponse(Text("not sure how to help prompt", <<>>),
                                None, TRUE, None)
             /\ agent_calls = <<>>
        /\ \A i \in DOMAIN agent_calls : agent_calls[i] # "process_order"

\* "Buy a chair" holds an order and a product keyword: the order prompt wins
C20_Witness ==
    /\ Answered /\ LoopRaised
    /\ HasOrderKeyword /\ HasProductKeyword
    /\ agent_response.content.src = "order details prompt"
    /\ agent_calls = <<>>

---------------------------------------------------------------------------
(* Claims about the process_order tool *)

\* C18: for every argument set the process_order tool returns to the
\* reasoning loop the message of the Order Processor's result, or an
\* apologetic error string if an exception escapes.
C18_ToolReturnsMessage ==
    IsSome(tool_return) =>
        \/ lastOp = "process_order" /\ tool_return[1] = result.message
        \/ lastOp = "tool apology" /\ tool_return[1] = ToolApology

---------------------------------------------------------------------------
(* Claims about the Order Processor, continued *)

Validated == lastOp = "validate_product_availability"

C15_EveryCall ==
    Validated =>
      LET known == result.product_id \in DOMAIN products IN
      /\ result.success <=>
           (known /\ products[result.product_id].stock_quantity
                       >= result.quantity)
      /\ result.success => result.product = Some(products[result.product_id])
      /\ ~known =>
           /\ result.message.kind = "not found"
           /\ result.product = None
      /\ (known /\ products[result.product_id].stock_quantity
                      < result.quantity) =>
           /\ result.message.kind = "Insufficient stock"
           /\ result.product = Some(products[result.product_id])

C15_Step ==
    (lastOp' = "validate_product_availability") =>
        products' = products /\ ledger' = ledger

\* C15: validate_product_availability(product_id, quantity) returns valid
\* with the product iff product_id is in the product table and its
\* stock_quantity >= quantity; for an unknown id (false, a 'not found'
\* message, absent); for a known id with less stock (false, an 'Insufficient
\* stock' message, the product); and it changes neither the product table
\* nor the ledger.
C15_ValidateAvailability == [](C15_EveryCall) /\ [][C15_Step]_vars

\* One unit asked of a product whose stock earlier orders brought down to 0
C15_Witness ==
    /\ Validated
    /\ Len(ledger) >= 1
    /\ result.product_id = "P1"
    /\ result.quantity = 1
    /\ products["P1"].stock_quantity = 0
    /\ LoadedTable["P1"].stock_quantity > 0
    /\ result.message.kind = "Insufficient stock"
    /\ result.product = Some(products["P1"])

IsPrefix(s, t) == Len(s) <= Len(t) /\ SubSeq(t, 1, Len(s)) = s

C16_Step ==
    /\ IsPrefix(ledger, ledger')
    /\ Len(ledger') <= Len(ledger) + 1
    /\ Len(ledger') = Len(ledger) + 1 <=>
         (lastOp' = "process_order" /\ result'.success)
    /\ Len(ledger') = Len(ledger) + 1 =>
         ledger'[Len(ledger')][1] = result'.order_id[1]

\* C16: the ledger is append-only and ordered by call sequence: every step
\* (process_order calls, construction of further Order Processors on the
\* same ledger) leaves the rows already written as they are, in their order,
\* and adds one row, that of the call, exactly when a process_order call
\* succeeds.
C16_LedgerAppendOnly == [][C16_Step]_vars

\* Two rows whose quantities exceed the catalog stock: a second processor
\* was constructed between the two orders
C16_Witness ==
    /\ Len(ledger) = 2
    /\ ledger[1][1] # ledger[2][1]
    /\ SumQuantity(ledger, "P1") > LoadedTable["P1"].stock_quantity
    /\ lastOp = "process_order"
    /\ result.success
    /\ ledger[2][1] = result.order_id[1]

CatalogOf(row) == LoadedTable[row[2]]

---------------------------------------------------------------------------
(* Claims about the session flag *)

\* ChatInterface.is_active
is_active == session_active

\* C30: whenever start_chat has returned, by whichever exit (quit command,
\* end-of-input, interrupt signal, stop_chat, agent not ready), is_active()
\* is false.
C30_InactiveAfterReturn == chat_pc = "returned" => ~is_active

---------------------------------------------------------------------------
(* Claims about stock *)

\* C27: stock conservation: for one Order Processor started on an empty
\* ledger and never reloaded, after any sequence of process_order calls the
\* stock loaded from the catalog equals, for every product, the in-memory
\* stock_quantity plus the sum of the quantities of its ledger rows.
C27_StockConservation ==
    \A p \in DOMAIN products :
        LoadedTable[p].stock_quantity
            = products[p].stock_quantity + SumQuantity(ledger, p)

\* Both products sold out: their whole loaded stock is in the ledger
C27_Witness ==
    /\ Len(ledger) = 2
    /\ SumQuantity(ledger, "P1") = MaxStock
    /\ SumQuantity(ledger, "P2") = 1
    /\ products["P1"].stock_quantity = 0
    /\ products["P2"].stock_quantity = 0

\* C26: in every state reachable by process_order,
\* validate_product_availability and reload_catalog on one processor, every
\* product's stock_quantity is a non-negative integer.
C26_StockNeverNegative ==
    \A p \in DOMAIN products : products[p].stock_quantity \in Nat

\* P1 sold out, reloaded and sold out again: more in the ledger than the
\* catalog ever held, and the stock back at zero
C26_Witness ==
    /\ lastOp = "process_order"
    /\ result.success
    /\ "P1" \in DOMAIN products
    /\ products["P1"].stock_quantity = 0
    /\ SumQuantity(ledger, "P1") > MaxStock

\* C28: across correct-password /respond requests (each constructing a
\* fresh assistant) that share one ledger file and one unchanged catalog file,
\* the quantities recorded in the ledger for a product never add up to more
\* than the product's stock_quantity in the catalog file.
C28_LedgerWithinCatalogStock ==
    \A p \in DOMAIN LoadedTable :
        SumQuantity(ledger, p) <= LoadedTable[p].stock_quantity

---------------------------------------------------------------------------
(* Claims about reloading *)

\* C29: after reload_catalog the table is exactly the products of the
\* catalog file with the file's stock (products no longer in the file are
\* gone, decrements are discarded), and the call returns true exactly when
\* the table is non-empty.
C29_ReloadMirrorsFile ==
    lastOp = "reload_catalog" =>
        /\ products = load_catalog(EmptyTable, catalog_file)
        /\ result.success = (products # EmptyTable)

---------------------------------------------------------------------------
(* Claims about the order of the checks of process_order *)

\* process_order is the call that ran last, and was observed
OrderObserved == lastOp = "process_order" /\ call_args.op = "process_order"

\* The outcome (the distinctive phrase of the message) of the call observed
Outcome == result.message.kind
SuppliedName(a) == IsSome(a.product_name) /\ a.product_name[1] # <<>>

\* C25: process_order reports only the first failure, in a fixed order:
\* invalid order data (empty product id, quantity <= 0 or not an integer,
\* empty address) before any catalog lookup; otherwise the availability
\* message of an unknown or understocked product; only for a known product
\* with enough stock is a supplied product_name compared case-insensitively
\* with the catalog name, a difference giving the name-mismatch failure and
\* a match up to case being accepted.
C25_ChecksInOrder ==
    OrderObserved =>
        LET a == call_args.args
            table == call_args.table
        IN
        IF \/ a.product_id = ""
           \/ ~a.quantity_is_int
           \/ a.quantity <= 0
           \/ a.delivery_address = ""
        THEN Outcome = "Invalid order data"
        ELSE IF a.product_id \notin DOMAIN table
        THEN Outcome = "not found"
        ELSE IF table[a.product_id].stock_quantity < a.quantity
        THEN Outcome = "Insufficient stock"
        ELSE IF SuppliedName(a) /\ a.product_name_is_str
        THEN IF Lower(a.product_name[1]) = Lower(table[a.product_id].name)
             THEN Outcome \in {"placed successfully", "Failed to save order"}
             ELSE Outcome = "Product name mismatch"
        ELSE SuppliedName(a)
             \/ Outcome \in {"placed successfully", "Failed to save order"}

\* An order with several faults at once (no address, unknown product, a
\* name) reports the invalid data only
C25_Witness ==
    /\ OrderObserved
    /\ call_args.args.delivery_address = ""
    /\ call_args.args.product_id = "P1"
    /\ call_args.args.quantity > MaxStock
    /\ call_args.args.product_name = Some(NameP2)
    /\ Outcome = "Invalid order data"

\* A name in another case is accepted, for a product with enough stock
C25_WitnessAccepted ==
    /\ OrderObserved
    /\ call_args.args.product_name = Some(<<"a", "B">>)
    /\ call_args.args.product_name_is_str
    /\ result.success

---------------------------------------------------------------------------
(* Claims about the ledger rows *)

---------------------------------------------------------------------------
(* Claims about the RAG Engine *)

\* The stock_quantity that the catalog file gives for a product
FileStock(product_id) ==
    LET d == SelectSeq(catalog_file.products,
                       LAMBDA q : q.product_id = product_id)
    IN Head(d).stock_quantity

StockInfo(n) == IF n > 0 THEN Some(n) ELSE None

\* C21: the RAG Engine's product copy is independent of the Order
\* Processor's: after any sequence of successful process_order calls in the
\* same process, the stock_quantity the RAG Engine reports for every product
\* (search results, get_product_by_id, generated answers) is still the value
\* loaded from the catalog file, and only the Order Processor's copy
\* reflects the decrements.
C21_RagStockIndependent ==
    RagReady =>
      /\ \A i \in 1..Len(rag_products) :
           rag_products[i].stock_quantity
               = FileStock(rag_products[i].product_id)
      /\ call_result.op = "get_product_by_id" =>
           \A i \in 1..Len(call_result.returns) :
               call_result.returns[i].stock_quantity
                   = FileStock(call_args.product_id)
      /\ call_result.op = "search_products" =>
           \A i \in 1..Len(call_result.returns) :
               call_result.returns[i].stock_quantity
                   = FileStock(call_result.returns[i].product_id)
      /\ call_result.op = "generate_response" =>
           LET answer == call_result.returns.answer IN
           /\ answer.kind = "llm" =>
                \A i \in 1..Len(answer.context) :
                    answer.context[i].stock_quantity
                        = FileStock(answer.context[i].product_id)
           /\ answer.kind = "fallback" =>
                \A i \in 1..Len(answer.items) :
                    answer.items[i].stock_info
                        = StockInfo(FileStock(call_args.products[i].product_id))
      /\ \A p \in DOMAIN products :
           products[p].stock_quantity
               = FileStock(p) - SumQuantity(ledger, p)

\* P1 sold out through the Order Processor, and the RAG Engine asked for it
C21_Witness ==
    /\ RagReady
    /\ Len(ledger) > 0
    /\ products["P1"].stock_quantity = 0
    /\ call_result.op = "get_product_by_id"
    /\ call_result.returns # None
    /\ call_result.returns[1].product_id = "P1"
    /\ call_result.returns[1].stock_quantity = MaxStock

\* The same, for an answer generated after the orders
C21_WitnessAnswer ==
    /\ RagReady
    /\ SumQuantity(ledger, "P1") = MaxStock
    /\ call_result.op = "generate_response"
    /\ call_result.returns.answer.kind = "fallback"
    /\ call_result.returns.answer.items[1].name = NameP1

---------------------------------------------------------------------------
(* Claims about catalog load failures *)

\* The catalog file cannot be loaded: it is missing, is not JSON, or holds a
\* product that Product rejects
LoadFails(file) ==
    \/ file.status # "ok"
    \/ \E i \in 1..Len(file.products) : ~ProductPostInit(file.products[i])

NoValidProduct(file) ==
    /\ file.status = "ok"
    /\ \A i \in 1..Len(file.products) : ~ProductPostInit(file.products[i])

ValidOrderData(a) ==
    /\ a.product_id # ""
    /\ a.quantity_is_int
    /\ a.quantity > 0
    /\ a.delivery_address # ""

\* What the claim says of the RAG Engine: a missing file, malformed JSON or
\* a catalog with no valid product makes its construction fail
RagConstructionFails ==
    rag_status # "none" =>
        /\ catalog_file.status = "missing" => rag_status = "FileNotFoundError"
        /\ catalog_file.status = "malformed" => rag_status = "JSONDecodeError"
        /\ NoValidProduct(catalog_file) => rag_status = "ValueError"

\* C22 (as amended): on a catalog load failure the Order Processor is
\* constructed with an empty product table, and every later process_order
\* whose order data is valid returns the 'not found' failure (invalid order
\* data is reported as such, before the lookup); a missing file, malformed
\* JSON or a catalog with no valid product makes RAG Engine construction fail.
C22_LoadFailure ==
    /\ LoadFails(catalog_file) =>
         /\ products = EmptyTable
         /\ OrderObserved /\ ValidOrderData(call_args.args) =>
              Outcome = "not found"
    /\ RagConstructionFails

\* C22 as stated: on a catalog load failure every later process_order
\* returns the 'not found' failure.
C22_LoadFailureAsStated ==
    /\ LoadFails(catalog_file) =>
         /\ products = EmptyTable
         /\ OrderObserved => Outcome = "not found"
    /\ RagConstructionFails

\* One rejected product in the file: the processor has an empty table and
\* answers 'not found' for P1, while the RAG Engine is ready with P1
C22_Witness ==
    /\ catalog_file.status = "ok"
    /\ LoadFails(catalog_file)
    /\ RagReady
    /\ Len(rag_products) = 1
    /\ OrderObserved
    /\ call_args.args.product_id = "P1"
    /\ ValidOrderData(call_args.args)
    /\ Outcome = "not found"

\* The file is missing: the RAG Engine's constructor raised
C22_WitnessMissing ==
    /\ catalog_file.status = "missing"
    /\ rag_status = "FileNotFoundError"
    /\ OrderObserved
    /\ Outcome = "not found"

---------------------------------------------------------------------------
(* Claims about generated answers *)

Min(a, b) == IF a < b THEN a ELSE b

\* Alphabetical order of two categories
Before(c, d) ==
    \E i, j \in 1..Len(CategoryOrder) :
        i < j /\ CategoryOrder[i] = c /\ CategoryOrder[j] = d

\* cats lists the distinct categories of the engine's catalog, sorted
SortedDistinctCategories(cats) ==
    /\ {cats[i] : i \in 1..Len(cats)}
           = {rag_products[i].category : i \in 1..Len(rag_products)}
    /\ \A i, j \in 1..Len(cats) : i < j => Before(cats[i], cats[j])

C23_WitnessNoResults ==
    /\ call_result.op = "generate_response"
    /\ call_args.products = <<>>
    /\ Len(call_result.returns.answer.categories) = 2

====
